---- MODULE Spec2Model ----
(***************************************************************************)
(* Model of the detection engine of prototype_bank:                        *)
(*   FinancialStressDetector (src/financial_stress_detector.py) and         *)
(*   LifeEventDetector       (src/life_event_detector.py).                  *)
(*                                                                         *)
(* Conventions.  A DataFrame is [columns, rows]; rows is the sequence of   *)
(* records in index order.  A date is a day number (the generator supplies *)
(* datetime objects a whole number of days apart).  An amount is a whole   *)
(* number of dollars.  A description is a sequence of characters.  A mean  *)
(* or percentage is kept as an exact fraction [num, den]; the rounding to  *)
(* two decimals for display is not modelled.  A float confidence is        *)
(* [c, e]: c hundredths plus e units in the last place of the double.      *)
(* DataFrame.sort_values is modelled as a stable sort.                     *)
(***************************************************************************)
EXTENDS Integers, Sequences, FiniteSets, TLC

VARIABLES
    sensitivity,        \* self.sensitivity of both detectors
    thresholds,         \* FinancialStressDetector.thresholds
    stress_indicators,  \* FinancialStressDetector.stress_indicators (cache)
    events,             \* LifeEventDetector.events (cache)
    transactions_df,    \* the caller's transaction collection
    analyzed,           \* history: the collection each detector last analyzed
                        \* and the last one for which analyze() returned
    memo,               \* history: one earlier analyze() call kept by the caller
    ret,                \* the last call: its name, the cache before it, its result
                        \* and the exception it raised instead, if any
    threads             \* per concurrent caller: the call it is inside, its
                        \* local variables and what the call returned

vars == <<sensitivity, thresholds, stress_indicators, events,
          transactions_df, analyzed, memo, ret, threads>>

\* None / NaN / an absent optional value
NA == "NA"

(***************************************************************************)
(* Text: str.lower(), re.search and Series.str.contains                    *)
(***************************************************************************)
UpperCase == <<"A","B","C","D","E","F","G","H","I","J","K","L","M",
               "N","O","P","Q","R","S","T","U","V","W","X","Y","Z">>

LowerCase == <<"a","b","c","d","e","f","g","h","i","j","k","l","m",
               "n","o","p","q","r","s","t","u","v","w","x","y","z">>

lower_char(c) ==
    IF \E i \in 1..26 : UpperCase[i] = c
    THEN LowerCase[CHOOSE i \in 1..26 : UpperCase[i] = c]
    ELSE c

lower(s) == [i \in 1..Len(s) |-> lower_char(s[i])]

\* One character of a regular expression against one character of the text:
\* "." stands for any character, every other pattern character used by the
\* keyword lists is a literal.
re_char(p, c) == p = "." \/ p = c

re_match_at(pattern, s, i) ==
    /\ i + Len(pattern) - 1 <= Len(s)
    /\ \A k \in 1..Len(pattern) : re_char(pattern[k], s[i + k - 1])

re_search(pattern, s) == \E i \in 1..Len(s) : re_match_at(pattern, s, i)

\* str.contains('|'.join(keywords), na=False) on an already lower-cased text
str_contains(s, keywords) ==
    \E j \in 1..Len(keywords) : re_search(keywords[j], s)

\* str.contains(word, case=False, na=False)
str_contains_nocase(s, word) == re_search(lower(word), lower(s))

fee_keywords ==
    << <<"l", "a", "t", "e", " ", "p", "a", "y", "m", "e", "n", "t">>,
       <<"l", "a", "t", "e", " ", "f", "e", "e">>,
       <<"o", "v", "e", "r", "d", "r", "a", "f", "t">>,
       <<"n", "s", "f">>,
       <<"i", "n", "s", "u", "f", "f", "i", "c", "i", "e", "n", "t", " ", "f", "u", "n", "d", "s">>,
       <<"r", "e", "t", "u", "r", "n", "e", "d", " ", "p", "a", "y", "m", "e", "n", "t">> >>

payday_keywords ==
    << <<"c", "a", "s", "h", " ", "a", "d", "v", "a", "n", "c", "e">>,
       <<"p", "a", "y", "d", "a", "y">>,
       <<"q", "u", "i", "c", "k", "c", "a", "s", "h">>,
       <<"f", "a", "s", "t", "c", "a", "s", "h">>,
       <<"a", "d", "v", "a", "n", "c", "e", " ", "a", "m", "e", "r", "i", "c", "a">>,
       <<"c", "h", "e", "c", "k", " ", "i", "n", "t", "o", " ", "c", "a", "s", "h">> >>

moving_keywords ==
    << <<"m", "o", "v", "e", "r">>,
       <<"m", "o", "v", "i", "n", "g">>,
       <<"r", "e", "l", "o", "c", "a", "t", "i", "o", "n">>,
       <<"t", "r", "u", "c", "k", " ", "r", "e", "n", "t", "a", "l">>,
       <<"u", "-", "h", "a", "u", "l">>,
       <<"p", "o", "d", "s">> >>

utility_setup_keywords ==
    << <<"s", "e", "t", "u", "p">>,
       <<"a", "c", "t", "i", "v", "a", "t", "i", "o", "n">>,
       <<"n", "e", "w", " ", "s", "e", "r", "v", "i", "c", "e">>,
       <<"i", "n", "s", "t", "a", "l", "l", "a", "t", "i", "o", "n">> >>

travel_keywords ==
    << <<"a", "i", "r", "l", "i", "n", "e">>,
       <<"f", "l", "i", "g", "h", "t">>,
       <<"h", "o", "t", "e", "l">>,
       <<"r", "e", "s", "o", "r", "t">>,
       <<"h", "o", "s", "t", "e", "l">>,
       <<"a", "i", "r", "b", "n", "b">>,
       <<"b", "o", "o", "k", "i", "n", "g", ".", "c", "o", "m">>,
       <<"e", "x", "p", "e", "d", "i", "a">>,
       <<"t", "r", "a", "v", "e", "l", " ", "i", "n", "s", "u", "r", "a", "n", "c", "e">> >>

(***************************************************************************)
(* Descriptions used by the transaction collections of the model           *)
(***************************************************************************)
D_LateFee == <<"L", "a", "t", "e", " ", "P", "a", "y", "m", "e", "n", "t", " ", "F", "e", "e", " ", "-", " ", "C", "r", "e", "d", "i", "t", " ", "C", "a", "r", "d">>
D_Overdraft == <<"O", "v", "e", "r", "d", "r", "a", "f", "t", " ", "F", "e", "e">>
D_Nsf == <<"N", "S", "F", " ", "C", "h", "a", "r", "g", "e">>
D_Atm == <<"A", "T", "M", " ", "W", "i", "t", "h", "d", "r", "a", "w", "a", "l", " ", "#", "1", "2", "3", "4">>
D_CashBack == <<"G", "r", "o", "c", "e", "r", "y", " ", "a", "t", "m", " ", "c", "a", "s", "h", " ", "b", "a", "c", "k">>
D_QuickCash == <<"Q", "u", "i", "c", "k", "C", "a", "s", "h", " ", "A", "d", "v", "a", "n", "c", "e">>
D_Rent == <<"R", "e", "n", "t", " ", "P", "a", "y", "m", "e", "n", "t">>
D_Payroll == <<"A", "C", "M", "E", " ", "C", "o", "r", "p", " ", "P", "a", "y", "r", "o", "l", "l", " ", "D", "e", "p", "o", "s", "i", "t">>
D_Movers == <<"S", "w", "i", "f", "t", " ", "M", "o", "v", "e", "r", "s", " ", "L", "L", "C">>
D_SecDeposit == <<"N", "e", "w", " ", "A", "p", "a", "r", "t", "m", "e", "n", "t", "s", " ", "-", " ", "S", "e", "c", "u", "r", "i", "t", "y", " ", "D", "e", "p", "o", "s", "i", "t">>
D_Setup == <<"C", "i", "t", "y", " ", "E", "l", "e", "c", "t", "r", "i", "c", " ", "-", " ", "N", "e", "w", " ", "S", "e", "r", "v", "i", "c", "e", " ", "S", "e", "t", "u", "p">>
D_Airline == <<"S", "k", "y", "H", "i", "g", "h", " ", "A", "i", "r", "l", "i", "n", "e", "s">>
D_Hotel == <<"P", "a", "r", "i", "s", " ", "G", "r", "a", "n", "d", " ", "H", "o", "t", "e", "l">>
D_AirFrance == <<"A", "i", "r", " ", "F", "r", "a", "n", "c", "e">>
D_Booking == <<"b", "o", "o", "k", "i", "n", "g", "X", "c", "o", "m">>
D_Cafe == <<"C", "o", "r", "n", "e", "r", " ", "C", "a", "f", "e">>

W_ATM == <<"A", "T", "M">>
W_overdraft == <<"o", "v", "e", "r", "d", "r", "a", "f", "t">>
W_late == <<"l", "a", "t", "e">>
W_deposit == <<"d", "e", "p", "o", "s", "i", "t">>

Descriptions ==
    { D_LateFee, D_Overdraft, D_Nsf, D_Atm, D_CashBack, D_QuickCash, D_Rent,
      D_Payroll, D_Movers, D_SecDeposit, D_Setup, D_Airline, D_Hotel,
      D_AirFrance, D_Booking, D_Cafe }

\* The keyword tests, evaluated once per description.
fee_keyword_hit == [d \in Descriptions |-> str_contains(lower(d), fee_keywords)]
payday_keyword_hit == [d \in Descriptions |-> str_contains(lower(d), payday_keywords)]
moving_keyword_hit == [d \in Descriptions |-> str_contains(lower(d), moving_keywords)]
utility_keyword_hit == [d \in Descriptions |-> str_contains(lower(d), utility_setup_keywords)]
travel_keyword_hit == [d \in Descriptions |-> str_contains(lower(d), travel_keywords)]
atm_word_hit == [d \in Descriptions |-> str_contains_nocase(d, W_ATM)]
overdraft_word_hit == [d \in Descriptions |-> str_contains_nocase(d, W_overdraft)]
late_word_hit == [d \in Descriptions |-> str_contains_nocase(d, W_late)]
deposit_word_hit == [d \in Descriptions |-> str_contains_nocase(d, W_deposit)]

(***************************************************************************)
(* DataFrame helpers                                                       *)
(***************************************************************************)
RequiredColumns == {"date", "description", "amount", "category", "merchant", "type"}

\* One transaction as the generator appends it
Txn(date, description, amount, category, merchant, type, location) ==
    [date |-> date, description |-> description, amount |-> amount,
     category |-> category, merchant |-> merchant, type |-> type,
     location |-> location]

\* pd.DataFrame of the generator: the rows, the columns they carry, and the
\* dtype of the date column, datetime64 since the generator stores datetimes
DataFrame(columns, rows) ==
    [columns |-> columns, rows |-> rows, date_dtype |-> "datetime64[ns]"]

\* The same frame as a caller reads it from text: the date column holds ISO
\* date strings (dtype object), each denoting the day the row records
WithStringDates(df) == [df EXCEPT !.date_dtype = "object"]

Abs(x) == IF x < 0 THEN -x ELSE x

RECURSIVE SumAmount(_)
SumAmount(rows) ==
    IF rows = <<>> THEN 0 ELSE Head(rows).amount + SumAmount(Tail(rows))

RECURSIVE SumBalance(_)
SumBalance(rows) ==
    IF rows = <<>> THEN 0 ELSE Head(rows).balance + SumBalance(Tail(rows))

\* Series.min() / Series.max() of the date column of a non-empty frame
MinDate(rows) == CHOOSE d \in {rows[i].date : i \in 1..Len(rows)} :
                     \A j \in 1..Len(rows) : d <= rows[j].date

MaxDate(rows) == CHOOSE d \in {rows[i].date : i \in 1..Len(rows)} :
                     \A j \in 1..Len(rows) : d >= rows[j].date

\* DataFrame.sort_values('date'): rows in ascending date order, rows of the
\* same date keeping their index order.
RECURSIVE InsertByDate(_, _)
InsertByDate(sorted, r) ==
    IF sorted = <<>> THEN <<r>>
    ELSE IF sorted[Len(sorted)].date <= r.date THEN Append(sorted, r)
    ELSE Append(InsertByDate(SubSeq(sorted, 1, Len(sorted) - 1), r),
                sorted[Len(sorted)])

RECURSIVE sort_values_date(_)
sort_values_date(rows) ==
    IF rows = <<>> THEN <<>>
    ELSE InsertByDate(sort_values_date(SubSeq(rows, 1, Len(rows) - 1)),
                      rows[Len(rows)])

\* Series.unique(): the distinct merchants in order of first occurrence
RECURSIVE unique_merchants(_)
unique_merchants(rows) ==
    IF rows = <<>> THEN <<>>
    ELSE LET front == unique_merchants(SubSeq(rows, 1, Len(rows) - 1))
             m == rows[Len(rows)].merchant
         IN  IF \E i \in 1..Len(front) : front[i] = m THEN front
             ELSE Append(front, m)

\* A cell of a string-dated column whose text is no date ('not-a-date'); the
\* days of the cells that are dates count from 0
MalformedDate == -1

\* pd.to_datetime of one cell: a datetime is kept, a date string becomes the
\* day it denotes; the column it returns is of dtype datetime64 either way
to_datetime(v) == v

\* pd.to_datetime cannot parse a cell of the date column
unparsable_dates(df) ==
    /\ df.date_dtype = "object"
    /\ \E i \in 1..Len(df.rows) : df.rows[i].date = MalformedDate

\* df = transactions_df.copy(); df['date'] = pd.to_datetime(df['date']):
\* the frame the detectors work on
working_copy(df) ==
    DataFrame(df.columns \cup {"date"},
              [i \in 1..Len(df.rows) |->
                  [df.rows[i] EXCEPT !.date = to_datetime(@)]])

\* A call that returns raises nothing
NoError == [type |-> "none", key |-> "none"]

\* df[key] for a column the frame does not have: KeyError(key)
KeyError(key) == [type |-> "KeyError", key |-> key]

\* pd.to_datetime on a text that is no date: a ValueError (DateParseError)
DateParseError == [type |-> "ValueError", key |-> "date"]

\* The caller's frame once analyze() has assigned the parsed dates to df, had
\* df been bound to the caller's frame itself and not to a copy of it
caller_frame_aliased(transactions, df) == df

\* The caller's frame once analyze() has assigned the parsed dates to df: df
\* is a copy, so the assignment does not reach the frame that was passed
caller_frame(transactions, df) == transactions

\* A faulty analyze: the cache is emptied on entry, so an exception leaves
\* the detector with an empty cache
raise_after_reset(self, transactions, error) ==
    [self |-> [k \in DOMAIN self |->
                  IF k \in {"stress_indicators", "events"} THEN <<>> ELSE self[k]],
     transactions |-> transactions, value |-> <<>>, raised |-> error]

\* An exception leaves the method: self is as it was, nothing is returned;
\* the caller's frame is as the statements before the exception left it
raise(self, transactions, error) ==
    [self |-> self, transactions |-> transactions, value |-> <<>>, raised |-> error]

(***************************************************************************)
(* FinancialStressDetector                                                 *)
(***************************************************************************)
\* A faulty _set_thresholds: an unrecognised sensitivity gets the strictest
\* set instead of the base set
_set_thresholds_strict_default(s) ==
    LET base == [small_withdrawal_threshold |-> 60,
                 small_withdrawal_count |-> 6,
                 small_withdrawal_days |-> 14,
                 declining_balance_months |-> 2,
                 balance_decline_pct |-> 20,
                 high_fee_threshold |-> 50]
    IN  IF s = "medium" THEN base
        ELSE IF s = "low"
        THEN [base EXCEPT !.small_withdrawal_count = 8, !.balance_decline_pct = 30]
        ELSE [base EXCEPT !.small_withdrawal_count = 4, !.balance_decline_pct = 15]

_set_thresholds(s) ==
    LET base == [small_withdrawal_threshold |-> 60,
                 small_withdrawal_count |-> 6,
                 small_withdrawal_days |-> 14,
                 declining_balance_months |-> 2,
                 balance_decline_pct |-> 20,
                 high_fee_threshold |-> 50]
    IN  IF s = "high"
        THEN [base EXCEPT !.small_withdrawal_count = 4, !.balance_decline_pct = 15]
        ELSE IF s = "low"
        THEN [base EXCEPT !.small_withdrawal_count = 8, !.balance_decline_pct = 30]
        ELSE base

\* FinancialStressDetector.__init__
FSD_init(s) ==
    [sensitivity |-> s, thresholds |-> _set_thresholds(s), stress_indicators |-> <<>>]

is_fee_txn(r) == r.type = "fee" \/ fee_keyword_hit[r.description]

\* A faulty classifier: a total equal to the threshold is already medium
fee_severity_inclusive(self, total_fees, num_fees) ==
    LET s1 == "low"
        s2 == IF total_fees >= self.thresholds.high_fee_threshold THEN "medium" ELSE s1
        s3 == IF num_fees >= 3 THEN "high" ELSE s2
    IN  s3

\* severity = 'low'; 'medium' if the total exceeds the threshold; then 'high'
\* if there are three or more fees (the later assignment wins)
fee_severity(self, total_fees, num_fees) ==
    LET s1 == "low"
        s2 == IF total_fees > self.thresholds.high_fee_threshold THEN "medium" ELSE s1
        s3 == IF num_fees >= 3 THEN "high" ELSE s2
    IN  s3

\* A faulty detector: no test for len(fee_txns) > 0, so a frame without fee
\* rows gets an indicator of no fee
detect_late_payment_fees_unguarded(self, df) ==
    LET fee_txns == SelectSeq(df.rows, is_fee_txn)
        total_fees == Abs(SumAmount(fee_txns))
        overdraft_fees == SelectSeq(fee_txns, LAMBDA r : overdraft_word_hit[r.description])
        late_payment_fees == SelectSeq(fee_txns, LAMBDA r : late_word_hit[r.description])
    IN  << [indicator_type |-> "late_payment_fees",
            severity |-> fee_severity(self, total_fees, Len(fee_txns)),
            date_range |-> IF fee_txns = <<>> THEN <<NA, NA>>
                           ELSE <<MinDate(fee_txns), MaxDate(fee_txns)>>,
            details |-> [total_fees |-> total_fees,
                         num_fees |-> Len(fee_txns),
                         overdraft_fees |-> Len(overdraft_fees),
                         late_payment_fees |-> Len(late_payment_fees),
                         fee_list |-> [i \in 1..Len(fee_txns) |->
                             [date |-> fee_txns[i].date,
                              description |-> fee_txns[i].description,
                              amount |-> fee_txns[i].amount]]],
            message |-> <<Len(fee_txns), "late payment/overdraft fee(s) detected", total_fees>>,
            recommendation |-> "Consider setting up automatic payments to avoid late fees."] >>

detect_late_payment_fees(self, df) ==
    LET fee_txns == SelectSeq(df.rows, is_fee_txn)
        total_fees == Abs(SumAmount(fee_txns))
        overdraft_fees == SelectSeq(fee_txns, LAMBDA r : overdraft_word_hit[r.description])
        late_payment_fees == SelectSeq(fee_txns, LAMBDA r : late_word_hit[r.description])
    IN  IF Len(fee_txns) > 0
        THEN << [indicator_type |-> "late_payment_fees",
                 severity |-> fee_severity(self, total_fees, Len(fee_txns)),
                 date_range |-> <<MinDate(fee_txns), MaxDate(fee_txns)>>,
                 details |-> [total_fees |-> total_fees,
                              num_fees |-> Len(fee_txns),
                              overdraft_fees |-> Len(overdraft_fees),
                              late_payment_fees |-> Len(late_payment_fees),
                              fee_list |-> [i \in 1..Len(fee_txns) |->
                                  [date |-> fee_txns[i].date,
                                   description |-> fee_txns[i].description,
                                   amount |-> fee_txns[i].amount]]],
                 message |-> <<Len(fee_txns), "late payment/overdraft fee(s) detected", total_fees>>,
                 recommendation |-> "Consider setting up automatic payments to avoid late fees."] >>
        ELSE <<>>

is_atm_txn(r) == r.type = "withdrawal" \/ atm_word_hit[r.description]

\* abs(amount) < small_withdrawal_threshold: an amount equal to the threshold
\* is not small
is_small(self, r) == Abs(r.amount) < self.thresholds.small_withdrawal_threshold

\* window_txns for the anchor at position i of the date-sorted small withdrawals
window_txns_at(self, small_withdrawals, i) ==
    LET window_start == small_withdrawals[i].date
        window_end == window_start + self.thresholds.small_withdrawal_days
    IN  SelectSeq(small_withdrawals,
                  LAMBDA r : r.date >= window_start /\ r.date <= window_end)

\* A faulty test: the minimum count itself does not qualify
window_qualifies_strict(self, window_txns) ==
    Len(window_txns) > self.thresholds.small_withdrawal_count

window_qualifies(self, window_txns) ==
    Len(window_txns) >= self.thresholds.small_withdrawal_count

withdrawal_severity(window_txns) ==
    IF Len(window_txns) >= 10 THEN "high" ELSE "medium"

withdrawal_indicator(self, small_withdrawals, i) ==
    LET window_start == small_withdrawals[i].date
        window_end == window_start + self.thresholds.small_withdrawal_days
        window_txns == window_txns_at(self, small_withdrawals, i)
    IN  [indicator_type |-> "frequent_small_withdrawals",
         severity |-> withdrawal_severity(window_txns),
         date_range |-> <<window_start, window_end>>,
         details |-> [num_withdrawals |-> Len(window_txns),
                      total_amount |-> Abs(SumAmount(window_txns)),
                      avg_withdrawal |-> [num |-> Abs(SumAmount(window_txns)),
                                          den |-> Len(window_txns)],
                      days |-> self.thresholds.small_withdrawal_days],
         message |-> <<Len(window_txns), "small ATM withdrawals in",
                       self.thresholds.small_withdrawal_days,
                       "days (potential cash flow issue)">>,
         recommendation |-> "Multiple small withdrawals may indicate cash flow difficulties. Consider reviewing your budget."]

\* A faulty loop: no break, every qualifying window is reported
RECURSIVE scan_windows_no_break(_, _, _)
scan_windows_no_break(self, small_withdrawals, i) ==
    IF i > Len(small_withdrawals) THEN <<>>
    ELSE IF window_qualifies(self, window_txns_at(self, small_withdrawals, i))
    THEN << withdrawal_indicator(self, small_withdrawals, i) >>
         \o scan_windows_no_break(self, small_withdrawals, i + 1)
    ELSE scan_windows_no_break(self, small_withdrawals, i + 1)

\* for i in range(len(small_withdrawals)): ... append; break
RECURSIVE scan_windows(_, _, _)
scan_windows(self, small_withdrawals, i) ==
    IF i > Len(small_withdrawals) THEN <<>>
    ELSE IF window_qualifies(self, window_txns_at(self, small_withdrawals, i))
    THEN << withdrawal_indicator(self, small_withdrawals, i) >>
    ELSE scan_windows(self, small_withdrawals, i + 1)

detect_frequent_small_withdrawals(self, df) ==
    LET atm_txns == SelectSeq(df.rows, is_atm_txn)
        small_withdrawals == SelectSeq(atm_txns, LAMBDA r : is_small(self, r))
    IN  IF Len(atm_txns) > 0 /\ Len(small_withdrawals) > 0
        THEN scan_windows(self, sort_values_date(small_withdrawals), 1)
        ELSE <<>>

is_loan_txn(r) == payday_keyword_hit[r.description] \/ r.category = "Loan"

payday_indicator(txn) ==
    [indicator_type |-> "payday_loan",
     severity |-> "high",
     date_range |-> <<txn.date, txn.date>>,
     details |-> [merchant |-> txn.merchant, amount |-> txn.amount, date |-> txn.date],
     message |-> <<"Potential payday loan detected:", Abs(txn.amount)>>,
     recommendation |-> "Payday loans often have very high interest rates. Explore alternatives like credit union loans or payment plans."]

\* A faulty detector: the loan rows are reported together, as one indicator
\* dated at the first of them
detect_payday_loans_aggregated(self, df) ==
    LET loan_txns == SelectSeq(df.rows, is_loan_txn)
    IN  IF loan_txns = <<>> THEN <<>> ELSE <<payday_indicator(loan_txns[1])>>

\* one indicator per row of loan_txns, in iterrows() order
detect_payday_loans(self, df) ==
    LET loan_txns == SelectSeq(df.rows, is_loan_txn)
    IN  [i \in 1..Len(loan_txns) |-> payday_indicator(loan_txns[i])]

StartingBalance == 5000

\* df.sort_values('date'); balance = cumsum(amount) + 5000
RECURSIVE cumsum_balance(_, _)
cumsum_balance(rows, before) ==
    IF rows = <<>> THEN <<>>
    ELSE LET r == Head(rows)
             b == before + r.amount
         IN  << [date |-> r.date, amount |-> r.amount, balance |-> b + StartingBalance] >>
             \o cumsum_balance(Tail(rows), b)

calculate_running_balance(df) == cumsum_balance(sort_values_date(df.rows), 0)

\* Series.mean() as an exact fraction; the mean of no value is NaN (den = 0)
mean_balance(rows) == [num |-> SumBalance(rows), den |-> Len(rows)]

\* A faulty rating: a decline of exactly 40 percent is already high
decline_severity_inclusive(num, den) ==
    IF num >= 40 * den THEN "high"
    ELSE IF num < 25 * den THEN "low"
    ELSE "medium"

decline_severity(num, den) ==
    IF num > 40 * den THEN "high"
    ELSE IF num < 25 * den THEN "low"
    ELSE "medium"

\* A faulty guard: 30 records are already enough
enough_records_from_30(n) == n >= 30

\* len(df_with_balance) > 30
enough_records(n) == n > 30

\* A faulty test: a decline equal to the threshold already counts
decline_exceeds_inclusive(self, num, den) ==
    num >= self.thresholds.balance_decline_pct * den

\* decline_pct > self.thresholds['balance_decline_pct'], decline_pct = num / den
\* with den > 0
decline_exceeds(self, num, den) ==
    num > self.thresholds.balance_decline_pct * den

\* A faulty midpoint: the whole span is added, so no date lies after it
mid_point_at_end(first, days_total) == first + days_total

\* mid_point = df['date'].min() + timedelta(days=days_total // 2)
mid_point(first, days_total) == first + (days_total \div 2)

\* the rows the two means are taken over: date <= mid_point, date > mid_point
balance_halves(df_with_balance, mid) ==
    [early |-> SelectSeq(df_with_balance, LAMBDA r : r.date <= mid),
     late |-> SelectSeq(df_with_balance, LAMBDA r : r.date > mid)]

detect_declining_balance(self, df) ==
    LET df_with_balance == calculate_running_balance(df)
    IN  IF enough_records(Len(df_with_balance))
        THEN LET first == MinDate(df_with_balance)
                 last == MaxDate(df_with_balance)
                 days_total == last - first
                 halves == balance_halves(df_with_balance, mid_point(first, days_total))
                 early == mean_balance(halves.early)
                 late == mean_balance(halves.late)
                 \* decline_pct = (early - late) / early * 100 = num / den
                 num == (early.num * late.den - late.num * early.den) * 100
                 den == early.num * late.den
             IN  IF /\ days_total >= 60
                    /\ early.den > 0 /\ late.den > 0
                    /\ early.num > 0
                    /\ decline_exceeds(self, num, den)
                 THEN << [indicator_type |-> "declining_balance",
                          severity |-> decline_severity(num, den),
                          date_range |-> <<first, last>>,
                          details |-> [early_avg_balance |-> early,
                                       recent_avg_balance |-> late,
                                       decline_percentage |-> [num |-> num, den |-> den],
                                       current_balance |-> df_with_balance[Len(df_with_balance)].balance],
                          message |-> <<"Account balance declining by", num, den, "over time">>,
                          recommendation |-> "Your account balance is declining. Review your spending and consider ways to increase income or reduce expenses."] >>
                 ELSE <<>>
        ELSE <<>>

\* severity_order.get(x['severity'], 3)
severity_order(sev) ==
    IF sev = "high" THEN 0
    ELSE IF sev = "medium" THEN 1
    ELSE IF sev = "low" THEN 2
    ELSE 3

\* list.sort(key=...): stable, ascending by key
\* A faulty sort: an element is placed before the elements of its own key
RECURSIVE InsertBySeverity_unstable(_, _)
InsertBySeverity_unstable(sorted, x) ==
    IF sorted = <<>> THEN <<x>>
    ELSE IF severity_order(sorted[Len(sorted)].severity) < severity_order(x.severity)
    THEN Append(sorted, x)
    ELSE Append(InsertBySeverity_unstable(SubSeq(sorted, 1, Len(sorted) - 1), x),
                sorted[Len(sorted)])

RECURSIVE InsertBySeverity(_, _)
InsertBySeverity(sorted, x) ==
    IF sorted = <<>> THEN <<x>>
    ELSE IF severity_order(sorted[Len(sorted)].severity) <= severity_order(x.severity)
    THEN Append(sorted, x)
    ELSE Append(InsertBySeverity(SubSeq(sorted, 1, Len(sorted) - 1), x),
                sorted[Len(sorted)])

RECURSIVE sort_by_severity(_)
sort_by_severity(list) ==
    IF list = <<>> THEN <<>>
    ELSE InsertBySeverity(sort_by_severity(SubSeq(list, 1, Len(list) - 1)),
                          list[Len(list)])

\* the four extend() calls of analyze, in their order
run_stress_detectors(self, df) ==
    detect_late_payment_fees(self, df)
    \o detect_frequent_small_withdrawals(self, df)
    \o detect_payday_loans(self, df)
    \o detect_declining_balance(self, df)

\* The first column analyze() reads that the frame does not have, "none" when
\* it reads none such: 'date' is read at once, 'type' and 'description' by
\* the fee filter, 'amount' once a fee or an ATM row is selected, 'category'
\* by the loan filter, 'merchant' and 'amount' only for a selected loan row,
\* and 'amount' at last by calculate_running_balance.
stress_missing_column(transactions) ==
    LET has(c) == c \in transactions.columns
        rows == transactions.rows
        some(Test(_)) == \E i \in 1..Len(rows) : Test(rows[i])
    IN  IF ~has("date") THEN "date"
        ELSE IF ~has("type") THEN "type"
        ELSE IF ~has("description") THEN "description"
        ELSE IF ~has("amount") /\ (some(is_fee_txn) \/ some(is_atm_txn)) THEN "amount"
        ELSE IF ~has("category") THEN "category"
        ELSE IF ~has("merchant") /\ some(is_loan_txn) THEN "merchant"
        ELSE IF ~has("amount") THEN "amount"
        ELSE "none"

\* A faulty analyze: the merged list starts from self.stress_indicators
\* instead of []
FSD_analyze_merging(self, transactions) ==
    LET key == stress_missing_column(transactions)
        df == working_copy(transactions)
        all_indicators == sort_by_severity(self.stress_indicators \o run_stress_detectors(self, df))
    IN  IF key = "date" THEN raise(self, transactions, KeyError(key))
        ELSE IF unparsable_dates(transactions)
        THEN raise(self, transactions, DateParseError)
        ELSE IF key # "none"
        THEN raise(self, caller_frame(transactions, df), KeyError(key))
        ELSE [self |-> [self EXCEPT !.stress_indicators = all_indicators],
              transactions |-> caller_frame(transactions, df),
              value |-> all_indicators, raised |-> NoError]

\* FinancialStressDetector.analyze: the detector and the caller's frame after
\* the call, the returned list and the exception raised instead, if any
FSD_analyze(self, transactions) ==
    LET key == stress_missing_column(transactions)
        df == working_copy(transactions)
        all_indicators == sort_by_severity(<<>> \o run_stress_detectors(self, df))
    IN  IF key = "date" THEN raise(self, transactions, KeyError(key))
        ELSE IF unparsable_dates(transactions)
        THEN raise(self, transactions, DateParseError)
        ELSE IF key # "none"
        THEN raise(self, caller_frame(transactions, df), KeyError(key))
        ELSE [self |-> [self EXCEPT !.stress_indicators = all_indicators],
              transactions |-> caller_frame(transactions, df),
              value |-> all_indicators, raised |-> NoError]

with_severity(list, sev) == SelectSeq(list, LAMBDA i : i.severity = sev)

summary_items(list) ==
    [i \in 1..Len(list) |-> <<list[i].message, list[i].recommendation>>]

\* FinancialStressDetector.get_summary: the text as its parts
FSD_get_summary(self) ==
    IF self.stress_indicators = <<>>
    THEN [text |-> "No significant financial stress indicators detected. Keep up the good work!",
          areas |-> 0, high |-> <<>>, medium |-> <<>>, low |-> <<>>]
    ELSE [text |-> "FINANCIAL HEALTH INSIGHTS",
          areas |-> Len(self.stress_indicators),
          high |-> summary_items(with_severity(self.stress_indicators, "high")),
          medium |-> summary_items(with_severity(self.stress_indicators, "medium")),
          low |-> summary_items(with_severity(self.stress_indicators, "low"))]

RECURSIVE score_sum(_)
score_sum(list) ==
    IF list = <<>> THEN 0
    ELSE score_sum(SubSeq(list, 1, Len(list) - 1))
         + (IF list[Len(list)].severity = "high" THEN 30
            ELSE IF list[Len(list)].severity = "medium" THEN 15
            ELSE 5)

\* get_risk_score without the cap
get_risk_score_uncapped(self) ==
    IF self.stress_indicators = <<>> THEN 0 ELSE score_sum(self.stress_indicators)

\* FinancialStressDetector.get_risk_score
get_risk_score(self) ==
    IF self.stress_indicators = <<>> THEN 0
    ELSE IF score_sum(self.stress_indicators) <= 100
    THEN score_sum(self.stress_indicators)
    ELSE 100

(***************************************************************************)
(* LifeEventDetector                                                       *)
(***************************************************************************)
\* LifeEventDetector.__init__
LED_init(s) == [sensitivity |-> s, events |-> <<>>]

\* A Python float that is c hundredths, e units in the last place away
Float(c, e) == [c |-> c, e |-> e]

\* x + d/100 in IEEE-754 double arithmetic, for the sums the detectors form:
\* 0.6+0.2 = 0.8, 0.6+0.15 = 0.75, 0.8+0.15 = 0.9500000000000001,
\* 0.7+0.2 = 0.8999999999999999, 0.7+0.1 = 0.7999999999999999,
\* 0.8999999999999999+0.1 = 0.9999999999999999
float_add(x, d) ==
    CASE x = Float(60, 0) /\ d = 20 -> Float(80, 0)
      [] x = Float(60, 0) /\ d = 15 -> Float(75, 0)
      [] x = Float(80, 0) /\ d = 15 -> Float(95, 1)
      [] x = Float(70, 0) /\ d = 20 -> Float(90, -1)
      [] x = Float(70, 0) /\ d = 10 -> Float(80, -1)
      [] x = Float(90, -1) /\ d = 10 -> Float(100, -1)

float_le(x, y) == x.c < y.c \/ (x.c = y.c /\ x.e <= y.e)

float_min(x, y) == IF float_le(x, y) THEN x ELSE y

NoChange == [defined |-> FALSE, num |-> 0, den |-> 1]

\* ((new_avg - old_avg) / old_avg) * 100 as an exact fraction, None when an
\* average is zero
_calculate_income_change(income_df, old_employer, new_employer) ==
    LET old == SelectSeq(income_df, LAMBDA r : r.merchant = old_employer)
        new == SelectSeq(income_df, LAMBDA r : r.merchant = new_employer)
        old_sum == SumAmount(old)
        new_sum == SumAmount(new)
    IN  IF old_sum # 0 /\ new_sum # 0
        THEN [defined |-> TRUE,
              num |-> (new_sum * Len(old) - old_sum * Len(new)) * 100,
              den |-> old_sum * Len(new)]
        ELSE NoChange

\* A faulty event: dated at the new employer's last payment
job_change_event_last_payment(income_df, employers, i) ==
    LET employer == employers[i]
        employer_txns == SelectSeq(income_df, LAMBDA r : r.merchant = employer)
        last_payment == MaxDate(employer_txns)
    IN  [event_type |-> "job_change",
         date |-> last_payment,
         confidence |-> Float(85, 0),
         details |-> [new_employer |-> employer,
                      previous_employer |-> employers[i - 1],
                      first_payment_date |-> last_payment,
                      income_change |-> _calculate_income_change(
                                            income_df, employers[i - 1], employer)],
         message |-> <<"Potential job change detected: New income source from", employer>>]

job_change_event(income_df, employers, i) ==
    LET employer == employers[i]
        employer_txns == SelectSeq(income_df, LAMBDA r : r.merchant = employer)
        first_payment == MinDate(employer_txns)
    IN  [event_type |-> "job_change",
         date |-> first_payment,
         confidence |-> Float(85, 0),
         details |-> [new_employer |-> employer,
                      previous_employer |-> employers[i - 1],
                      first_payment_date |-> first_payment,
                      income_change |-> _calculate_income_change(
                                            income_df, employers[i - 1], employer)],
         message |-> <<"Potential job change detected: New income source from", employer>>]

detect_job_change(df) ==
    LET deposits == SelectSeq(df.rows, LAMBDA r : r.type = "deposit")
        income_df == SelectSeq(deposits, LAMBDA r : r.category = "Income")
        employers == unique_merchants(income_df)
    IN  IF Len(employers) > 1
        THEN [i \in 1..(Len(employers) - 1) |-> job_change_event(income_df, employers, i + 1)]
        ELSE <<>>

\* A faulty window test: the thirtieth day after the moving charge is left out
in_relocation_window_strict(txn, r) ==
    LET window_start == txn.date - 7
        window_end == txn.date + 30
    IN  r.date >= window_start /\ r.date < window_end

\* (df['date'] >= window_start) & (df['date'] <= window_end)
in_relocation_window(txn, r) ==
    LET window_start == txn.date - 7
        window_end == txn.date + 30
    IN  r.date >= window_start /\ r.date <= window_end

relocation_event(df, txn) ==
    LET window_df == SelectSeq(df.rows, LAMBDA r : in_relocation_window(txn, r))
        security_deposits == SelectSeq(window_df,
            LAMBDA r : deposit_word_hit[r.description] /\ r.amount < -1000)
        utility_setups == SelectSeq(window_df, LAMBDA r : utility_keyword_hit[r.description])
        c0 == Float(60, 0)
        c1 == IF Len(security_deposits) > 0 THEN float_add(c0, 20) ELSE c0
        c2 == IF Len(utility_setups) > 0 THEN float_add(c1, 15) ELSE c1
    IN  [event_type |-> "relocation",
         date |-> txn.date,
         confidence |-> float_min(c2, Float(95, 0)),
         details |-> [moving_charge |-> txn.amount,
                      moving_company |-> txn.merchant,
                      security_deposits_found |-> Len(security_deposits),
                      utility_setups_found |-> Len(utility_setups)],
         message |-> <<"Potential relocation detected on", txn.date>>]

detect_relocation(df) ==
    LET moving_txns == SelectSeq(df.rows, LAMBDA r : moving_keyword_hit[r.description])
    IN  [i \in 1..Len(moving_txns) |-> relocation_event(df, moving_txns[i])]

is_travel_txn(r) == travel_keyword_hit[r.description] \/ r.category = "Travel"

\* A faulty gap test: a gap of exactly 30 days starts a new trip
joins_trip_strict(last_date, date) == date - last_date < 30

\* (txn['date'] - last_date).days <= 30
joins_trip(last_date, date) == date - last_date <= 30

\* the clustering loop: trips closed so far, the current trip, the rows left
RECURSIVE cluster_trips(_, _, _)
cluster_trips(trips, current_trip, rest) ==
    IF rest = <<>>
    THEN IF current_trip # <<>> THEN Append(trips, current_trip) ELSE trips
    ELSE LET txn == Head(rest)
         IN  IF current_trip = <<>>
             THEN cluster_trips(trips, <<txn>>, Tail(rest))
             ELSE IF joins_trip(current_trip[Len(current_trip)].date, txn.date)
             THEN cluster_trips(trips, Append(current_trip, txn), Tail(rest))
             ELSE cluster_trips(Append(trips, current_trip), <<txn>>, Tail(rest))

\* locations.iloc[0] of trip_df['location'].dropna(), None without the column
\* or without a value
trip_destination(df, trip) ==
    LET locations == SelectSeq(trip, LAMBDA r : r.location # NA)
    IN  IF "location" \in df.columns /\ Len(locations) > 0
        THEN locations[1].location
        ELSE NA

travel_event(df, trip) ==
    LET total_spent == Abs(SumAmount(trip))
        start_date == MinDate(trip)
        end_date == MaxDate(trip)
        destination == trip_destination(df, trip)
        c0 == Float(70, 0)
        c1 == IF destination # NA /\ destination # "" THEN float_add(c0, 20) ELSE c0
        c2 == IF total_spent > 500 THEN float_add(c1, 10) ELSE c1
        merchants == unique_merchants(trip)
    IN  [event_type |-> "travel",
         date |-> start_date,
         confidence |-> float_min(c2, Float(95, 0)),
         details |-> [start_date |-> start_date,
                      end_date |-> end_date,
                      duration_days |-> end_date - start_date,
                      total_spent |-> total_spent,
                      num_transactions |-> Len(trip),
                      destination |-> destination,
                      merchants |-> SubSeq(merchants, 1, IF Len(merchants) < 3 THEN Len(merchants) ELSE 3)],
         message |-> IF destination # NA /\ destination # ""
                     THEN <<"Travel to", destination, start_date, end_date>>
                     ELSE <<"Travel detected:", "", start_date, end_date>>]

detect_travel(df) ==
    LET travel_txns == SelectSeq(df.rows, is_travel_txn)
        trips == cluster_trips(<<>>, <<>>, sort_values_date(travel_txns))
    IN  IF Len(travel_txns) > 0
        THEN [i \in 1..Len(trips) |-> travel_event(df, trips[i])]
        ELSE <<>>

\* list.sort(key=lambda x: x['date']): stable, ascending by date
sort_events_by_date(list) == sort_values_date(list)

run_life_detectors(df) ==
    detect_job_change(df) \o detect_relocation(df) \o detect_travel(df)

\* The first column analyze() reads that the frame does not have, "none" when
\* it reads none such: 'date' is read at once, 'type', 'category' and
\* 'merchant' by detect_job_change, 'amount' once there are two employers,
\* 'description' by the relocation filter, and 'amount' again only for a
\* selected moving row or a selected travel row.
life_missing_column(transactions) ==
    LET has(c) == c \in transactions.columns
        rows == transactions.rows
        some(Test(_)) == \E i \in 1..Len(rows) : Test(rows[i])
        income == SelectSeq(rows, LAMBDA r : r.type = "deposit" /\ r.category = "Income")
    IN  IF ~has("date") THEN "date"
        ELSE IF ~has("type") THEN "type"
        ELSE IF ~has("category") THEN "category"
        ELSE IF ~has("merchant") THEN "merchant"
        ELSE IF ~has("amount") /\ Len(unique_merchants(income)) > 1 THEN "amount"
        ELSE IF ~has("description") THEN "description"
        ELSE IF ~has("amount")
                /\ (some(LAMBDA r : moving_keyword_hit[r.description]) \/ some(is_travel_txn))
        THEN "amount"
        ELSE "none"

\* A faulty analyze: the merged list starts from self.events instead of []
LED_analyze_merging(self, transactions) ==
    LET key == life_missing_column(transactions)
        df == working_copy(transactions)
        all_events == sort_events_by_date(self.events \o run_life_detectors(df))
    IN  IF key = "date" THEN raise(self, transactions, KeyError(key))
        ELSE IF unparsable_dates(transactions)
        THEN raise(self, transactions, DateParseError)
        ELSE IF key # "none"
        THEN raise(self, caller_frame(transactions, df), KeyError(key))
        ELSE [self |-> [self EXCEPT !.events = all_events],
              transactions |-> caller_frame(transactions, df),
              value |-> all_events, raised |-> NoError]

\* LifeEventDetector.analyze: the detector and the caller's frame after the
\* call, the returned list and the exception raised instead, if any
LED_analyze(self, transactions) ==
    LET key == life_missing_column(transactions)
        df == working_copy(transactions)
        all_events == sort_events_by_date(<<>> \o run_life_detectors(df))
    IN  IF key = "date" THEN raise(self, transactions, KeyError(key))
        ELSE IF unparsable_dates(transactions)
        THEN raise(self, transactions, DateParseError)
        ELSE IF key # "none"
        THEN raise(self, caller_frame(transactions, df), KeyError(key))
        ELSE [self |-> [self EXCEPT !.events = all_events],
              transactions |-> caller_frame(transactions, df),
              value |-> all_events, raised |-> NoError]

\* LifeEventDetector.get_summary: the text as its parts
LED_get_summary(self) ==
    IF self.events = <<>>
    THEN [text |-> "No life events detected.", total |-> 0, entries |-> <<>>]
    ELSE [text |-> "LIFE EVENT DETECTION SUMMARY",
          total |-> Len(self.events),
          entries |-> [i \in 1..Len(self.events) |->
              [n |-> i,
               event_type |-> self.events[i].event_type,
               date |-> self.events[i].date,
               confidence |-> self.events[i].confidence,
               message |-> self.events[i].message,
               details |-> self.events[i].details]]]

(***************************************************************************)
(* The detectors as a state machine: one caller, one FinancialStressDetector*)
(* and one LifeEventDetector, each call running to completion.             *)
(***************************************************************************)
StressSelf ==
    [sensitivity |-> sensitivity, thresholds |-> thresholds,
     stress_indicators |-> stress_indicators]

LifeSelf == [sensitivity |-> sensitivity, events |-> events]

EmptyFrame == DataFrame(RequiredColumns, <<>>)

NotCalled == [called |-> FALSE, df |-> EmptyFrame, returned |-> FALSE, good |-> EmptyFrame]

\* the history of a detector after analyze(df) raised `raised` or returned
AfterCall(history, df, raised) ==
    [called |-> TRUE, df |-> df,
     returned |-> history.returned \/ raised = NoError,
     good |-> IF raised = NoError THEN df ELSE history.good]

NoCall == [op |-> "none", before |-> <<>>, value |-> <<>>, raised |-> NoError]

\* The callers that share the two detector instances
Callers == {"X", "Y"}

\* A caller that is inside no call and has made none
Idle ==
    [pc |-> "idle", op |-> "none", transactions |-> EmptyFrame, df |-> EmptyFrame,
     step |-> 0, list |-> <<>>, result |-> <<>>, score |-> -1, overlapped |-> FALSE]

NoMemo == [kept |-> FALSE, op |-> "none", df |-> EmptyFrame, value |-> <<>>]

\* detector = Detector(sensitivity) for both classes, and a first collection
InitOver(sensitivities, inputs) ==
    /\ sensitivity \in sensitivities
    /\ thresholds = FSD_init(sensitivity).thresholds
    /\ stress_indicators = FSD_init(sensitivity).stress_indicators
    /\ events = LED_init(sensitivity).events
    /\ transactions_df \in inputs
    /\ analyzed = [stress |-> NotCalled, life |-> NotCalled]
    /\ memo = NoMemo
    /\ ret = NoCall
    /\ threads = [c \in Callers |-> Idle]

\* the caller takes another transaction collection
NewTransactions(inputs) ==
    /\ \E X \in inputs : X # transactions_df /\ transactions_df' = X
    /\ ret' = NoCall
    /\ UNCHANGED <<sensitivity, thresholds, stress_indicators, events, analyzed, memo, threads>>

\* stress_detector.analyze(transactions_df)
StressAnalyze ==
    LET r == FSD_analyze(StressSelf, transactions_df)
    IN  /\ sensitivity' = r.self.sensitivity
        /\ thresholds' = r.self.thresholds
        /\ stress_indicators' = r.self.stress_indicators
        /\ analyzed' = [analyzed EXCEPT !.stress = AfterCall(@, transactions_df, r.raised)]
        /\ transactions_df' = r.transactions
        /\ ret' = [op |-> "stress.analyze", before |-> stress_indicators,
                   value |-> r.value, raised |-> r.raised]
        /\ UNCHANGED <<events, memo, threads>>

\* life_detector.analyze(transactions_df)
LifeAnalyze ==
    LET r == LED_analyze(LifeSelf, transactions_df)
    IN  /\ sensitivity' = r.self.sensitivity
        /\ events' = r.self.events
        /\ analyzed' = [analyzed EXCEPT !.life = AfterCall(@, transactions_df, r.raised)]
        /\ transactions_df' = r.transactions
        /\ ret' = [op |-> "life.analyze", before |-> events,
                   value |-> r.value, raised |-> r.raised]
        /\ UNCHANGED <<thresholds, stress_indicators, memo, threads>>

\* stress_detector.get_risk_score()
GetRiskScore ==
    /\ ret' = [op |-> "get_risk_score", before |-> <<>>, value |-> get_risk_score(StressSelf),
               raised |-> NoError]
    /\ UNCHANGED <<sensitivity, thresholds, stress_indicators, events,
                   transactions_df, analyzed, memo, threads>>

\* stress_detector.get_summary()
GetSummary ==
    /\ ret' = [op |-> "stress.get_summary", before |-> <<>>, value |-> FSD_get_summary(StressSelf),
               raised |-> NoError]
    /\ UNCHANGED <<sensitivity, thresholds, stress_indicators, events,
                   transactions_df, analyzed, memo, threads>>

\* life_detector.get_summary()
LifeGetSummary ==
    /\ ret' = [op |-> "life.get_summary", before |-> <<>>, value |-> LED_get_summary(LifeSelf),
               raised |-> NoError]
    /\ UNCHANGED <<sensitivity, thresholds, stress_indicators, events,
                   transactions_df, analyzed, memo, threads>>

\* the caller keeps the list an analyze() call just returned, with its input
Remember ==
    /\ ret.op \in {"stress.analyze", "life.analyze"}
    /\ ret.raised = NoError
    /\ memo' = [kept |-> TRUE, op |-> ret.op,
                df |-> IF ret.op = "stress.analyze" THEN analyzed.stress.df
                       ELSE analyzed.life.df,
                value |-> ret.value]
    /\ UNCHANGED <<sensitivity, thresholds, stress_indicators, events,
                   transactions_df, analyzed, ret, threads>>

(***************************************************************************)
(* Two callers inside calls on the same instances at once. A call is a     *)
(* sequence of steps of its caller; between two steps the other caller may *)
(* take any number of its own. The local names of a call (df, the list     *)
(* being built) belong to the caller; the caches are shared.               *)
(***************************************************************************)
AnalyzeOps == {"stress.analyze", "life.analyze"}

\* the pc values at which a caller is inside analyze()
InsideAnalyze == {"detecting", "sorted", "assigned"}

\* the k-th sub-detector call of FinancialStressDetector.analyze
stress_detector_call(self, df, k) ==
    CASE k = 1 -> detect_late_payment_fees(self, df)
      [] k = 2 -> detect_frequent_small_withdrawals(self, df)
      [] k = 3 -> detect_payday_loans(self, df)
      [] k = 4 -> detect_declining_balance(self, df)

\* the k-th sub-detector call of LifeEventDetector.analyze
life_detector_call(df, k) ==
    CASE k = 1 -> detect_job_change(df)
      [] k = 2 -> detect_relocation(df)
      [] k = 3 -> detect_travel(df)

detector_calls(op) == IF op = "stress.analyze" THEN 4 ELSE 3

\* The cache while a call extends its list, had analyze() built the list in
\* the instance attribute itself
cache_while_building_shared(cache, all_indicators) == all_indicators

\* The cache while a call extends its list: all_indicators / all_events is a
\* local name, the attribute is not touched before the final assignment
cache_while_building(cache, all_indicators) == cache

\* caller c enters analyze(X): the frame is copied and its dates parsed, the
\* local list starts empty
ThreadCall(c, inputs) ==
    /\ threads[c].pc = "idle"
    /\ \E op \in AnalyzeOps, X \in inputs :
          LET meets(d) == threads[d].pc \in InsideAnalyze
          IN  threads' =
                [d \in Callers |->
                    IF d = c
                    THEN [Idle EXCEPT !.pc = "detecting", !.op = op,
                                      !.transactions = X, !.df = working_copy(X),
                                      !.overlapped = \E e \in Callers \ {c} : meets(e)]
                    ELSE [threads[d] EXCEPT !.overlapped = @ \/ meets(d)]]
    /\ UNCHANGED <<sensitivity, thresholds, stress_indicators, events,
                   transactions_df, analyzed, memo, ret>>

\* caller c runs the next sub-detector and extends its local list
ThreadDetect(c) ==
    LET t == threads[c]
        found == IF t.op = "stress.analyze"
                 THEN stress_detector_call(StressSelf, t.df, t.step + 1)
                 ELSE life_detector_call(t.df, t.step + 1)
        list == t.list \o found
    IN  /\ t.pc = "detecting"
        /\ t.step < detector_calls(t.op)
        /\ threads' = [threads EXCEPT ![c].step = @ + 1, ![c].list = list]
        /\ stress_indicators' = IF t.op = "stress.analyze"
                                THEN cache_while_building(stress_indicators, list)
                                ELSE stress_indicators
        /\ events' = IF t.op = "life.analyze"
                     THEN cache_while_building(events, list)
                     ELSE events
        /\ UNCHANGED <<sensitivity, thresholds, transactions_df, analyzed, memo, ret>>

\* caller c sorts its local list
ThreadSort(c) ==
    LET t == threads[c]
    IN  /\ t.pc = "detecting"
        /\ t.step = detector_calls(t.op)
        /\ threads' = [threads EXCEPT ![c].pc = "sorted",
                          ![c].list = IF t.op = "stress.analyze"
                                      THEN sort_by_severity(t.list)
                                      ELSE sort_events_by_date(t.list)]
        /\ UNCHANGED <<sensitivity, thresholds, stress_indicators, events,
                       transactions_df, analyzed, memo, ret>>

\* caller c assigns its local list to the instance attribute
ThreadAssign(c) ==
    LET t == threads[c]
    IN  /\ t.pc = "sorted"
        /\ threads' = [threads EXCEPT ![c].pc = "assigned"]
        /\ stress_indicators' = IF t.op = "stress.analyze" THEN t.list
                                ELSE stress_indicators
        /\ events' = IF t.op = "life.analyze" THEN t.list ELSE events
        /\ UNCHANGED <<sensitivity, thresholds, transactions_df, analyzed, memo, ret>>

\* analyze() returns caller c its local list
ThreadReturn(c) ==
    /\ threads[c].pc = "assigned"
    /\ threads' = [threads EXCEPT ![c].pc = "returned", ![c].result = threads[c].list]
    /\ UNCHANGED <<sensitivity, thresholds, stress_indicators, events,
                   transactions_df, analyzed, memo, ret>>

\* caller c, back from stress analyze(), enters get_risk_score(): the test
\* 'if not self.stress_indicators' reads the cache and returns 0 if it is empty
ThreadRiskCheck(c) ==
    /\ threads[c].pc \in {"returned", "scored"}
    /\ threads[c].op = "stress.analyze"
    /\ threads' = IF stress_indicators = <<>>
                  THEN [threads EXCEPT ![c].pc = "scored", ![c].score = 0]
                  ELSE [threads EXCEPT ![c].pc = "scoring"]
    /\ UNCHANGED <<sensitivity, thresholds, stress_indicators, events,
                   transactions_df, analyzed, memo, ret>>

\* get_risk_score() of caller c reads the cache again for its loop and
\* returns the capped sum
ThreadRiskScore(c) ==
    /\ threads[c].pc = "scoring"
    /\ threads' = [threads EXCEPT ![c].pc = "scored",
                                  ![c].score = get_risk_score(StressSelf)]
    /\ UNCHANGED <<sensitivity, thresholds, stress_indicators, events,
                   transactions_df, analyzed, memo, ret>>

(***************************************************************************)
(* Transactions and collections the specifications draw from               *)
(***************************************************************************)
AllColumns == RequiredColumns \cup {"location"}

FeeTxn(day, dollars) == Txn(day, D_LateFee, -dollars, "Fees", "MegaBank", "fee", NA)

OverdraftTxn(day, dollars) == Txn(day, D_Overdraft, -dollars, "Fees", "MegaBank", "fee", NA)

\* a fee by its description only
NsfTxn(day, dollars) == Txn(day, D_Nsf, -dollars, "Shopping", "MegaBank", "purchase", NA)

AtmTxn(day, dollars) == Txn(day, D_Atm, -dollars, "ATM", "ATM", "withdrawal", NA)

LoanTxn(day, dollars) == Txn(day, D_QuickCash, dollars, "Loan", "QuickCash", "deposit", NA)

SalaryTxn(day, employer, dollars) ==
    Txn(day, D_Payroll, dollars, "Income", employer, "deposit", NA)

RentTxn(day) == Txn(day, D_Rent, -1200, "Housing", "Property Management", "bill_payment", NA)

MoverTxn(day, dollars) ==
    Txn(day, D_Movers, -dollars, "Moving", "Swift Movers LLC", "purchase", NA)

SecDepositTxn(day, dollars) ==
    Txn(day, D_SecDeposit, -dollars, "Housing", "New Apartments", "purchase", NA)

SetupTxn(day, dollars) ==
    Txn(day, D_Setup, -dollars, "Utilities", "City Electric", "bill_payment", NA)

CafeTxn(day, dollars) == Txn(day, D_Cafe, -dollars, "Dining", "Corner Cafe", "purchase", NA)

\* n transactions, the i-th made by Make(i)
Rows(n, Make(_)) == [i \in 1..n |-> Make(i)]

(***************************************************************************)
(* Spec: both detectors, their caches and their queries.  Collections of   *)
(* payday loans on days 11.., with or without a change of employer (and    *)
(* then a late fee).                                                       *)
(***************************************************************************)
MaxCacheLoans == 2

Sensitivities == {"low", "medium", "high"}

CacheInputs ==
    { DataFrame(RequiredColumns,
                Rows(nl, LAMBDA i : LoanTxn(10 + i, 400))
                \o (IF job THEN <<SalaryTxn(1, "ACME Corp", 2500),
                                  FeeTxn(9, 30),
                                  SalaryTxn(15, "TechStart Inc", 3000)>>
                    ELSE <<SalaryTxn(1, "ACME Corp", 2500)>>)) :
        nl \in 0..MaxCacheLoans, job \in BOOLEAN }

Init == InitOver(Sensitivities, CacheInputs)

Next ==
    \/ NewTransactions(CacheInputs)
    \/ StressAnalyze
    \/ LifeAnalyze
    \/ GetRiskScore
    \/ GetSummary
    \/ LifeGetSummary

Spec == Init /\ [][Next]_vars

(***************************************************************************)
(* SpecRisk: the stress detector, its cache and its queries, over          *)
(* collections of payday loans and late fees.                              *)
(***************************************************************************)
MaxLoans == 4
MaxFees == 3

RiskInputs ==
    { DataFrame(RequiredColumns,
                Rows(nf, LAMBDA i : FeeTxn(i, 30))
                \o Rows(nl, LAMBDA i : LoanTxn(10 + i, 400))) :
        nl \in 0..MaxLoans, nf \in 0..MaxFees }

InitRisk == InitOver(Sensitivities, RiskInputs)

NextRisk ==
    \/ NewTransactions(RiskInputs)
    \/ StressAnalyze
    \/ GetRiskScore
    \/ GetSummary

SpecRisk == InitRisk /\ [][NextRisk]_vars

(***************************************************************************)
(* SpecDet: repeated analyze() calls, the caller keeping one earlier       *)
(* result to compare the later ones with.                                  *)
(***************************************************************************)
MaxDetLoans == 1

DetInputs ==
    { DataFrame(RequiredColumns,
                Rows(nl, LAMBDA i : LoanTxn(10 + i, 400))
                \o (IF job THEN <<SalaryTxn(1, "ACME Corp", 2500),
                                  FeeTxn(9, 30),
                                  SalaryTxn(15, "TechStart Inc", 3000)>>
                    ELSE <<SalaryTxn(1, "ACME Corp", 2500)>>)) :
        nl \in 0..MaxDetLoans, job \in BOOLEAN }

InitDet == InitOver(Sensitivities, DetInputs)

NextDet ==
    \/ NewTransactions(DetInputs)
    \/ StressAnalyze
    \/ LifeAnalyze
    \/ Remember

SpecDet == InitDet /\ [][NextDet]_vars

(***************************************************************************)
(* SpecOrder: one analyze() of the stress detector and its queries, over   *)
(* collections mixing late fees, four small withdrawals and payday loans,  *)
(* listed fees first or loans first.                                       *)
(***************************************************************************)
OrderInputs ==
    { DataFrame(RequiredColumns,
                IF fees_first
                THEN Rows(nf, LAMBDA i : FeeTxn(i, 30))
                     \o Rows(nw, LAMBDA i : AtmTxn(20 + i, 40))
                     \o Rows(nl, LAMBDA i : LoanTxn(10 + i, 400))
                ELSE Rows(nl, LAMBDA i : LoanTxn(20 - i, 400))
                     \o Rows(nw, LAMBDA i : AtmTxn(20 + i, 40))
                     \o Rows(nf, LAMBDA i : FeeTxn(i, 30))) :
        nf \in 0..MaxFees, nw \in {0, 4}, nl \in 0..MaxLoans, fees_first \in BOOLEAN }

InitOrder == InitOver(Sensitivities, OrderInputs)

NextStress ==
    \/ StressAnalyze
    \/ GetRiskScore
    \/ GetSummary

SpecOrder == InitOrder /\ [][NextStress]_vars

(***************************************************************************)
(* SpecWindow: one analyze() of the stress detector and its queries, over  *)
(* collections of ATM withdrawals: a later cluster (listed first), an      *)
(* earlier cluster 14 or 15 days before it, possibly one withdrawal five   *)
(* days before that and possibly one withdrawal of exactly $60.            *)
(***************************************************************************)
MaxCluster == 5

WindowInputs ==
    { DataFrame(RequiredColumns,
                Rows(q, LAMBDA i : AtmTxn(5 + gap, 40))
                \o (IF sixty THEN <<AtmTxn(6, 60)>> ELSE <<>>)
                \o Rows(p, LAMBDA i : AtmTxn(5, dollars))
                \o <<CafeTxn(6, 10)>>
                \o (IF lead THEN <<AtmTxn(0, 40)>> ELSE <<>>)) :
        p \in 0..MaxCluster, q \in 0..MaxCluster, gap \in {14, 15},
        dollars \in {20, 59}, sixty \in BOOLEAN, lead \in BOOLEAN }

InitWindow == InitOver(Sensitivities, WindowInputs)

SpecWindow == InitWindow /\ [][NextStress]_vars

(***************************************************************************)
(* SpecFees: one analyze() of the stress detector and its queries, over    *)
(* collections of $25 late fees, $30 overdraft fees and possibly an NSF    *)
(* charge of $50 or $51 that is a fee by its description only.             *)
(***************************************************************************)
FeeInputs ==
    { DataFrame(RequiredColumns,
                <<RentTxn(1)>>
                \o Rows(m, LAMBDA i : OverdraftTxn(10 + i, 30))
                \o Rows(k, LAMBDA i : FeeTxn(i, 25))
                \o (IF nsf > 0 THEN <<NsfTxn(20, nsf)>> ELSE <<>>)) :
        k \in 0..MaxFees, m \in 0..MaxFees, nsf \in {0, 50, 51} }

InitFees == InitOver(Sensitivities, FeeInputs)

SpecFees == InitFees /\ [][NextStress]_vars

(***************************************************************************)
(* SpecJob: one analyze() of the life detector and its summary, over       *)
(* collections of up to MaxDeposits payroll deposits, each from one of     *)
(* three employers, dated in the order listed or in the reverse order,     *)
(* beside a deposit that is no income and an income that is no deposit.    *)
(***************************************************************************)
MaxDeposits == 5

Employers == {"EmployerA", "EmployerB", "EmployerC"}

Salary(employer) ==
    CASE employer = "EmployerA" -> 2500
      [] employer = "EmployerB" -> 3000
      [] OTHER -> 2000

JobInputs ==
    { DataFrame(RequiredColumns,
                << Txn(0, D_Cafe, 40, "Refund", "Corner Cafe", "deposit", NA),
                   Txn(0, D_Payroll, -50, "Income", "Side Gig", "purchase", NA) >>
                \o Rows(n, LAMBDA i :
                       SalaryTxn(IF ascending THEN 10 * i ELSE 10 * (n + 1 - i),
                                 who[i], Salary(who[i])))) :
        n \in 0..MaxDeposits, who \in [1..MaxDeposits -> Employers],
        ascending \in BOOLEAN }

InitJob == InitOver(Sensitivities, JobInputs)

NextLife ==
    \/ LifeAnalyze
    \/ LifeGetSummary

SpecJob == InitJob /\ [][NextLife]_vars

(***************************************************************************)
(* SpecTravel: one analyze() of the life detector and its summary, over    *)
(* collections of up to MaxTravel travel transactions on the days of       *)
(* TravelDays, listed in any order and with repeated days, matching by     *)
(* keyword or by category in turn, beside a cafe purchase on day 20.       *)
(***************************************************************************)
MaxTravel == 4

TravelDays == {0, 5, 35, 40, 71}

AirlineTxn(day, dollars) ==
    Txn(day, D_Airline, -dollars, "Shopping", "SkyHigh Airlines", "purchase", NA)

AirFranceTxn(day, dollars) ==
    Txn(day, D_AirFrance, -dollars, "Travel", "Air France", "purchase", NA)

TravelInputs ==
    { DataFrame(RequiredColumns,
                << CafeTxn(20, 10) >>
                \o Rows(n, LAMBDA i :
                       IF i % 2 = 1 THEN AirlineTxn(days[i], 100 * i)
                                    ELSE AirFranceTxn(days[i], 100 * i))) :
        n \in 0..MaxTravel, days \in [1..MaxTravel -> TravelDays] }

InitTravel == InitOver(Sensitivities, TravelInputs)

SpecTravel == InitTravel /\ [][NextLife]_vars

(***************************************************************************)
(* Collections with a balance history: an early block of early records     *)
(* from day 0, the first spending `first` dollars, and a late block of     *)
(* late records ending on day span, the first spending `drop` dollars      *)
(* (receiving, when drop is negative); the other records of both blocks    *)
(* move no money, so the running balance is 5000 - first over the early    *)
(* block and 5000 - first - drop over the late block.                      *)
(***************************************************************************)
BalanceRows(early, late, span, first, drop) ==
    Rows(early, LAMBDA i : CafeTxn(i - 1, IF i = 1 THEN first ELSE 0))
    \o Rows(late, LAMBDA i : CafeTxn(span - late + i, IF i = 1 THEN drop ELSE 0))

EarlyRecords == 16

(***************************************************************************)
(* SpecHealthy: one analyze() of the stress detector and its queries, over *)
(* balance histories of 30 to MaxHealthyRecords records spanning 59 or 60  *)
(* days, whose balance falls by 15, 20, 30 or 31 percent of an early       *)
(* balance of 4000 (or starts from an early balance of 0), beside no, or   *)
(* MaxHealthyAtm or one fewer, small ATM withdrawals and possibly a fee or *)
(* a payday loan.                                                          *)
(***************************************************************************)
MaxHealthyRecords == 31

MaxHealthyAtm == 4

HealthyInputs ==
    { DataFrame(RequiredColumns,
                BalanceRows(EarlyRecords, n - EarlyRecords, span, first, drop)
                \o Rows(k, LAMBDA i : AtmTxn(i, 40))
                \o (CASE signal = "fee" -> <<FeeTxn(10, 25)>>
                      [] signal = "loan" -> <<LoanTxn(12, 400)>>
                      [] OTHER -> <<>>)) :
        n \in 30..MaxHealthyRecords, span \in {59, 60}, first \in {1000, 5000},
        drop \in {600, 800, 1200, 1240},
        k \in {0, MaxHealthyAtm - 1, MaxHealthyAtm},
        signal \in {"none", "fee", "loan"} }

InitHealthy == InitOver(Sensitivities, HealthyInputs)

SpecHealthy == InitHealthy /\ [][NextStress]_vars

(***************************************************************************)
(* SpecOrderings: the caller passes the same records in every order.  Two  *)
(* sets of records with pairwise distinct dates: two employers' deposits   *)
(* and an airline purchase; two payday loans and a late fee.  The caller   *)
(* keeps one result and analyzes a reordering of the same records.         *)
(***************************************************************************)
LifeRecords ==
    << SalaryTxn(1, "EmployerA", 2500), SalaryTxn(15, "EmployerB", 3000),
       AirlineTxn(30, 600) >>

StressRecords ==
    << LoanTxn(11, 400), FeeTxn(12, 25), LoanTxn(13, 500) >>

\* the collections holding the records of rows, each once, in any order
Orderings(rows) ==
    { DataFrame(RequiredColumns, [i \in 1..Len(rows) |-> rows[p[i]]]) :
        p \in { q \in [1..Len(rows) -> 1..Len(rows)] :
                  \A i, j \in 1..Len(rows) : q[i] = q[j] => i = j } }

OrderingInputs == Orderings(LifeRecords) \cup Orderings(StressRecords)

InitOrderings == InitOver({"medium"}, OrderingInputs)

NextOrderings ==
    \/ NewTransactions(Orderings(transactions_df.rows))
    \/ StressAnalyze
    \/ LifeAnalyze
    \/ Remember

SpecOrderings == InitOrderings /\ [][NextOrderings]_vars

(***************************************************************************)
(* SpecMissing: analyze() of both detectors and the queries, over          *)
(* collections that lack one of the required columns or none: a salary and *)
(* a cafe purchase, with or without a payday loan, a second employer, a    *)
(* late fee and an airline purchase.                                       *)
(***************************************************************************)
\* the frame without the columns cs: its rows carry no value there
WithoutColumns(df, cs) ==
    [df EXCEPT !.columns = @ \ cs,
               !.rows = [i \in 1..Len(df.rows) |->
                            [c \in DOMAIN df.rows[i] |->
                                IF c \in cs THEN NA ELSE df.rows[i][c]]]]

MissingInputs ==
    { WithoutColumns(
          DataFrame(RequiredColumns,
                    << SalaryTxn(1, "EmployerA", 2500), CafeTxn(3, 10) >>
                    \o (IF loan THEN <<LoanTxn(11, 400)>> ELSE <<>>)
                    \o (IF job THEN <<SalaryTxn(15, "EmployerB", 3000)>> ELSE <<>>)
                    \o (IF fee THEN <<FeeTxn(20, 25)>> ELSE <<>>)
                    \o (IF travel THEN <<AirlineTxn(30, 600)>> ELSE <<>>)),
          cs) :
        loan \in BOOLEAN, job \in BOOLEAN, fee \in BOOLEAN, travel \in BOOLEAN,
        cs \in {{}} \cup {{c} : c \in RequiredColumns} }

InitMissing == InitOver(Sensitivities, MissingInputs)

NextCalls ==
    \/ StressAnalyze
    \/ LifeAnalyze
    \/ GetRiskScore
    \/ GetSummary
    \/ LifeGetSummary

SpecMissing == InitMissing /\ [][NextCalls]_vars

(***************************************************************************)
(* SpecFrame: analyze() of both detectors in any sequence, the caller       *)
(* passing frames whose dates are datetimes or date strings and which lack *)
(* one required column or none; with a payday loan and two employers in    *)
(* every frame, a missing merchant or amount makes a call fail after the   *)
(* dates have been parsed.                                                 *)
(***************************************************************************)
FrameInputs ==
    LET full == DataFrame(RequiredColumns,
                          << SalaryTxn(1, "EmployerA", 2500), CafeTxn(3, 10),
                             LoanTxn(11, 400), SalaryTxn(15, "EmployerB", 3000) >>)
    IN  { IF strings THEN WithStringDates(WithoutColumns(full, cs))
          ELSE WithoutColumns(full, cs) :
            strings \in BOOLEAN,
            cs \in {{}} \cup {{c} : c \in RequiredColumns} }

InitFrame == InitOver({"medium"}, FrameInputs)

NextFrame ==
    \/ NewTransactions(FrameInputs)
    \/ StressAnalyze
    \/ LifeAnalyze

SpecFrame == InitFrame /\ [][NextFrame]_vars

(***************************************************************************)
(* SpecThreads: two callers, each making one analyze() call on either      *)
(* detector with a collection of its own and then asking for the risk      *)
(* score, their steps interleaved in every way; the caches start empty or  *)
(* hold the result of an earlier analyze() of both detectors.              *)
(***************************************************************************)
ThreadInputs ==
    { DataFrame(RequiredColumns,
                << SalaryTxn(1, "EmployerA", 2500), LoanTxn(11, 400),
                   FeeTxn(12, 25), SalaryTxn(15, "EmployerB", 3000) >>),
      DataFrame(RequiredColumns,
                << SalaryTxn(1, "EmployerA", 2500), FeeTxn(9, 30),
                   FeeTxn(20, 30), AirlineTxn(30, 600) >>) }

InitThreads ==
    /\ sensitivity = "medium"
    /\ thresholds = FSD_init(sensitivity).thresholds
    /\ \E earlier \in BOOLEAN, X \in ThreadInputs :
          /\ analyzed = [stress |-> IF earlier THEN AfterCall(NotCalled, X, NoError) ELSE NotCalled,
                         life |-> IF earlier THEN AfterCall(NotCalled, X, NoError) ELSE NotCalled]
          /\ stress_indicators = IF earlier THEN FSD_analyze(FSD_init(sensitivity), X).value
                                 ELSE FSD_init(sensitivity).stress_indicators
          /\ events = IF earlier THEN LED_analyze(LED_init(sensitivity), X).value
                      ELSE LED_init(sensitivity).events
    /\ transactions_df = EmptyFrame
    /\ memo = NoMemo
    /\ ret = NoCall
    /\ threads = [c \in Callers |-> Idle]

NextThreads ==
    \E c \in Callers :
        \/ ThreadCall(c, ThreadInputs)
        \/ ThreadDetect(c)
        \/ ThreadSort(c)
        \/ ThreadAssign(c)
        \/ ThreadReturn(c)
        \/ ThreadRiskCheck(c)
        \/ ThreadRiskScore(c)

SpecThreads == InitThreads /\ [][NextThreads]_vars

(***************************************************************************)
(* SpecEmpty: both detectors, their caches and their queries, the caller   *)
(* passing an empty collection (with or without the location column)       *)
(* before or after a collection with a payday loan, a late fee and a       *)
(* change of employer.                                                     *)
(***************************************************************************)
EmptyInputs ==
    { EmptyFrame, DataFrame(AllColumns, <<>>),
      DataFrame(RequiredColumns,
                << SalaryTxn(1, "ACME Corp", 2500), FeeTxn(9, 30),
                   LoanTxn(11, 400), SalaryTxn(15, "TechStart Inc", 3000) >>) }

InitEmpty == InitOver(Sensitivities, EmptyInputs)

NextEmpty ==
    \/ NewTransactions(EmptyInputs)
    \/ StressAnalyze
    \/ LifeAnalyze
    \/ GetRiskScore
    \/ GetSummary
    \/ LifeGetSummary

SpecEmpty == InitEmpty /\ [][NextEmpty]_vars

(***************************************************************************)
(* SpecThresholds: a stress detector constructed with a documented         *)
(* sensitivity or with any other value, then analyze(), get_summary() and  *)
(* get_risk_score() in any sequence over changing collections.             *)
(***************************************************************************)
OtherSensitivities == {"extreme", "High", ""}

InitThresholds == InitOver(Sensitivities \cup OtherSensitivities, EmptyInputs)

NextThresholds ==
    \/ NewTransactions(EmptyInputs)
    \/ StressAnalyze
    \/ GetSummary
    \/ GetRiskScore

SpecThresholds == InitThresholds /\ [][NextThresholds]_vars

(***************************************************************************)
(* SpecDecline: one analyze() of the stress detector and its queries, over *)
(* balance histories of 30 to MaxDeclineRecords records spanning 59, 60 or *)
(* 61 days: the balance stays at 4000, 0 or -1000 over the early records   *)
(* and then changes once, by +400, 0 or by a fall of 15, 16, 20, 21, 25,   *)
(* 30, 31, 40 or 41 percent of 4000.                                       *)
(***************************************************************************)
MaxDeclineRecords == 31

DeclineInputs ==
    { DataFrame(RequiredColumns,
                BalanceRows(EarlyRecords, n - EarlyRecords, span, first, drop)) :
        n \in 30..MaxDeclineRecords, span \in {59, 60, 61},
        first \in {1000, 5000, 6000},
        drop \in {-400, 0, 600, 640, 800, 840, 1000, 1200, 1240, 1600, 1640} }

InitDecline == InitOver(Sensitivities, DeclineInputs)

SpecDecline == InitDecline /\ [][NextStress]_vars

(***************************************************************************)
(* SpecPayday: one analyze() of the stress detector and its queries, over  *)
(* every sequence of up to MaxPayday rows, each a payday loan by keyword   *)
(* and category, by keyword only, by category only, or a cafe purchase.    *)
(***************************************************************************)
MaxPayday == 4

PaydayRow(kind, day) ==
    CASE kind = "both" -> LoanTxn(day, 400)
      [] kind = "keyword" -> Txn(day, D_QuickCash, 300, "Income", "QuickCash", "deposit", NA)
      [] kind = "category" -> Txn(day, D_Payroll, 500, "Loan", "Advance America", "deposit", NA)
      [] OTHER -> CafeTxn(day, 10)

PaydayInputs ==
    UNION { { DataFrame(RequiredColumns, [i \in 1..n |-> PaydayRow(kinds[i], 10 + (i \div 2))]) :
                kinds \in [1..n -> {"both", "keyword", "category", "cafe"}] } :
            n \in 0..MaxPayday }

InitPayday == InitOver({"medium"}, PaydayInputs)

SpecPayday == InitPayday /\ [][NextStress]_vars

(***************************************************************************)
(* SpecRelocation: analyze() of the life detector and its summary, over a  *)
(* moving charge on day 20, possibly a second one on day 40, a salary      *)
(* deposit on day 20, and possibly a security deposit of 1000 or 1500      *)
(* dollars and a utility setup, each dated 8 or 7 days before or 30 or 31  *)
(* days after one of the moving charges.                                   *)
(***************************************************************************)
EvidenceDays == {12, 13, 50, 51, 70, 71}

RelocationInputs ==
    { DataFrame(RequiredColumns,
                << SalaryTxn(20, "ACME Corp", 2500) >>
                \o (IF second THEN <<MoverTxn(40, 450)>> ELSE <<>>)
                \o (IF dep.day = 0 THEN <<>> ELSE <<SecDepositTxn(dep.day, dep.dollars)>>)
                \o (IF setup = 0 THEN <<>> ELSE <<SetupTxn(setup, 75)>>)
                \o << MoverTxn(20, 500) >>) :
        second \in BOOLEAN,
        dep \in [day : EvidenceDays \cup {0}, dollars : {1000, 1500}],
        setup \in EvidenceDays \cup {0} }

InitRelocation == InitOver({"medium"}, RelocationInputs)

SpecRelocation == InitRelocation /\ [][NextLife]_vars

(***************************************************************************)
(* SpecSpend: analyze() of the life detector and its summary, over one     *)
(* trip: an airline charge of 300, 500, 501 or 600 dollars, possibly a     *)
(* refund of 200 or 600 dollars from the airline two days later, possibly  *)
(* a hotel charge of 100 dollars that carries a location.                  *)
(***************************************************************************)
RefundTxn(day, dollars) ==
    Txn(day, D_Airline, dollars, "Travel", "SkyHigh Airlines", "refund", NA)

HotelTxn(day, dollars, location) ==
    Txn(day, D_Hotel, -dollars, "Travel", "Paris Grand Hotel", "purchase", location)

SpendInputs ==
    { DataFrame(AllColumns,
                << AirlineTxn(10, charge) >>
                \o (IF refund = 0 THEN <<>> ELSE <<RefundTxn(12, refund)>>)
                \o (IF hotel THEN <<HotelTxn(14, 100, "Paris, France")>> ELSE <<>>)
                \o << CafeTxn(15, 10) >>) :
        charge \in {300, 500, 501, 600}, refund \in {0, 200, 600}, hotel \in BOOLEAN }

InitSpend == InitOver(Sensitivities, SpendInputs)

SpecSpend == InitSpend /\ [][NextLife]_vars

(***************************************************************************)
(* SpecKeywords: analyze() of the life detector and its summary, over one  *)
(* or two purchases of category Shopping whose descriptions are an         *)
(* airline, a hotel, a mover, a cafe, a payroll text, or "bookingXcom".    *)
(***************************************************************************)
KeywordTexts == {D_Airline, D_Hotel, D_Movers, D_Cafe, D_Payroll, D_Booking}

ShoppingTxn(day, description) ==
    Txn(day, description, -120, "Shopping", "Online Store", "purchase", NA)

KeywordInputs ==
    { DataFrame(RequiredColumns, <<ShoppingTxn(10, d)>>) : d \in KeywordTexts }
    \cup { DataFrame(RequiredColumns, <<ShoppingTxn(10, d), ShoppingTxn(50, e)>>) :
              d \in KeywordTexts, e \in KeywordTexts }

InitKeywords == InitOver(Sensitivities, KeywordInputs)

SpecKeywords == InitKeywords /\ [][NextLife]_vars

(***************************************************************************)
(* SpecErrors: analyze() and the queries of both detectors in any          *)
(* sequence, the caller passing two well-formed collections (one of them   *)
(* with string dates) and collections on which analyze() raises: one with  *)
(* a date text that is no date, one without the merchant column, one       *)
(* without the date column.                                                *)
(***************************************************************************)
WithMalformedDate(df, i) ==
    [WithStringDates(df) EXCEPT !.rows[i].date = MalformedDate]

ErrorInputs ==
    LET first == DataFrame(RequiredColumns,
                           << SalaryTxn(1, "EmployerA", 2500), FeeTxn(9, 30),
                              LoanTxn(11, 400), SalaryTxn(15, "EmployerB", 3000) >>)
        second == DataFrame(RequiredColumns,
                            << SalaryTxn(1, "EmployerA", 2500), FeeTxn(9, 30),
                               FeeTxn(20, 30), AirlineTxn(30, 600) >>)
    IN  { first, WithStringDates(second), WithMalformedDate(first, 2),
          WithoutColumns(first, {"merchant"}), WithoutColumns(second, {"date"}) }

InitErrors == InitOver({"medium"}, ErrorInputs)

NextErrors ==
    \/ NewTransactions(ErrorInputs)
    \/ StressAnalyze
    \/ LifeAnalyze
    \/ GetRiskScore
    \/ GetSummary
    \/ LifeGetSummary

SpecErrors == InitErrors /\ [][NextErrors]_vars

(***************************************************************************)
(* SpecConfidence: analyze() of the life detector and its summary, over    *)
(* collections with or without a second employer, with or without a moving *)
(* charge and its security deposit and utility setup, and with an airline  *)
(* charge of 300 or 600 dollars, with or without a hotel charge that       *)
(* carries a location.                                                     *)
(***************************************************************************)
ConfidenceInputs ==
    { DataFrame(AllColumns,
                << SalaryTxn(1, "EmployerA", 2500) >>
                \o (IF job THEN <<SalaryTxn(15, "EmployerB", 3000)>> ELSE <<>>)
                \o (IF move THEN <<MoverTxn(20, 500)>> ELSE <<>>)
                \o (IF deposit THEN <<SecDepositTxn(22, 1500)>> ELSE <<>>)
                \o (IF setup THEN <<SetupTxn(24, 75)>> ELSE <<>>)
                \o << AirlineTxn(70, charge) >>
                \o (IF hotel THEN <<HotelTxn(72, 100, "Paris, France")>> ELSE <<>>)) :
        job \in BOOLEAN, move \in BOOLEAN, deposit \in BOOLEAN, setup \in BOOLEAN,
        charge \in {300, 600}, hotel \in BOOLEAN }

InitConfidence == InitOver({"medium"}, ConfidenceInputs)

SpecConfidence == InitConfidence /\ [][NextLife]_vars

(***************************************************************************)
(* SpecHalves: one analyze() of the stress detector and its queries, over  *)
(* histories of 30 to MaxDeclineRecords purchases of 10 dollars spanning   *)
(* 59, 60, 61 or 90 days: one on the first day, one on the last, and all   *)
(* the others on one day, which is the first day, the last day, the        *)
(* midpoint, or the day before or after the midpoint.                      *)
(***************************************************************************)
HalvesInputs ==
    { DataFrame(RequiredColumns,
                << CafeTxn(span, 10) >>
                \o Rows(n - 2, LAMBDA i : CafeTxn(day, 10))
                \o << CafeTxn(0, 10) >>) :
        n \in 30..MaxDeclineRecords,
        <<span, day>> \in UNION { { <<sp, d>> : d \in {0, (sp \div 2) - 1, sp \div 2,
                                                        (sp \div 2) + 1, sp} } :
                                  sp \in {59, 60, 61, 90} } }

InitHalves == InitOver(Sensitivities, HalvesInputs)

SpecHalves == InitHalves /\ [][NextStress]_vars

(***************************************************************************)
(* The claims                                                              *)
(***************************************************************************)
CountSeverity(list, sev) == Cardinality({i \in 1..Len(list) : list[i].severity = sev})

WeightedSum(list) ==
    30 * CountSeverity(list, "high") + 15 * CountSeverity(list, "medium")
    + 5 * CountSeverity(list, "low")

RiskFormula(list) == IF WeightedSum(list) < 100 THEN WeightedSum(list) ELSE 100

\* C1: in every reachable state get_risk_score() answers
\* min(100, 30*H + 15*M + 5*L) for the H high, M medium and L low indicators of
\* the cache, a value in 0..100; and so did the last get_risk_score() call.
C1_RiskScoreFormula ==
    /\ get_risk_score(StressSelf) = RiskFormula(stress_indicators)
    /\ get_risk_score(StressSelf) \in 0..100
    /\ ret.op = "get_risk_score" =>
          ret.value = RiskFormula(stress_indicators) /\ ret.value \in 0..100

\* C1 witness: a get_risk_score() call answered 100 for a cache whose weighted
\* sum is above 100, and the cache holds indicators of two severities
C1_Witness ==
    /\ ret.op = "get_risk_score"
    /\ ret.value = 100
    /\ WeightedSum(stress_indicators) > 100
    /\ CountSeverity(stress_indicators, "high") >= 4
    /\ CountSeverity(stress_indicators, "medium") = 1

\* the detector a fresh instance becomes by analyzing the last collection alone
FreshStress ==
    IF analyzed.stress.called
    THEN FSD_analyze(FSD_init(sensitivity), analyzed.stress.df).self
    ELSE FSD_init(sensitivity)

FreshLife ==
    IF analyzed.life.called
    THEN LED_analyze(LED_init(sensitivity), analyzed.life.df).self
    ELSE LED_init(sensitivity)

\* C2: after any sequence of analyze() calls the cache of each detector, and
\* every answer of get_risk_score() / get_summary(), is what a fresh detector
\* of the same sensitivity gives after analyzing the last collection alone.
C2_CacheReplaced ==
    /\ stress_indicators = FreshStress.stress_indicators
    /\ events = FreshLife.events
    /\ ret.op = "get_risk_score" => ret.value = get_risk_score(FreshStress)
    /\ ret.op = "stress.get_summary" => ret.value = FSD_get_summary(FreshStress)
    /\ ret.op = "life.get_summary" => ret.value = LED_get_summary(FreshLife)

InList(x, list) == \E i \in 1..Len(list) : list[i] = x

\* C2 witness: an analyze() call that began with a non-empty cache, one of
\* whose indicators is not in the new cache
C2_Witness ==
    /\ ret.op = "stress.analyze"
    /\ ret.value # <<>>
    /\ stress_indicators = ret.value
    /\ \E i \in 1..Len(ret.before) : ~InList(ret.before[i], stress_indicators)

LastInput(op) == IF op = "stress.analyze" THEN analyzed.stress.df ELSE analyzed.life.df

\* C3: an analyze() call on a collection returns the list an earlier
\* analyze() call on the same collection returned, whatever the cache held
\* when either call began.
C3_Determinism ==
    (memo.kept /\ ret.op = memo.op /\ LastInput(ret.op) = memo.df)
        => ret.value = memo.value

\* C3 witness: a second call on the kept collection, begun with a cache that
\* another collection had filled in between
C3_Witness ==
    /\ memo.kept
    /\ ret.op = memo.op
    /\ LastInput(ret.op) = memo.df
    /\ ret.value # <<>>
    /\ ret.before # <<>>
    /\ ret.before # ret.value

OfType(list, type) == SelectSeq(list, LAMBDA x : x.indicator_type = type)

SeverityRank(x) == CASE x.severity = "high" -> 0
                     [] x.severity = "medium" -> 1
                     [] x.severity = "low" -> 2

\* what the four sub-detectors emit for the analyzed collection, in the order
\* fees, small withdrawals, payday loans, declining balance
Emitted ==
    LET self == FSD_init(sensitivity)
        df == working_copy(analyzed.stress.df)
    IN  detect_late_payment_fees(self, df)
        \o detect_frequent_small_withdrawals(self, df)
        \o detect_payday_loans(self, df)
        \o detect_declining_balance(self, df)

\* C4: the list analyze() returns has no indicator of a lower severity before
\* one of a higher severity; the indicators of one severity are in emission
\* order (fees, small withdrawals, payday loans, declining balance); and the
\* payday loans are in the order of their transactions in the collection.
C4_SeverityOrder ==
    ret.op = "stress.analyze" =>
        /\ \A i, j \in 1..Len(ret.value) :
              i < j => SeverityRank(ret.value[i]) <= SeverityRank(ret.value[j])
        /\ \A sev \in {"high", "medium", "low"} :
              SelectSeq(ret.value, LAMBDA x : x.severity = sev)
                  = SelectSeq(Emitted, LAMBDA x : x.severity = sev)
        /\ LET loans == OfType(ret.value, "payday_loan")
               loan_rows == SelectSeq(analyzed.stress.df.rows,
                                LAMBDA r : payday_keyword_hit[r.description]
                                           \/ r.category = "Loan")
           IN  /\ Len(loans) = Len(loan_rows)
               /\ \A i \in 1..Len(loans) : loans[i].details.date = loan_rows[i].date

\* C4 witness: high fees, two payday loans in collection order (later date
\* first) and then the medium withdrawals, which were emitted second
C4_Witness ==
    /\ ret.op = "stress.analyze"
    /\ Len(ret.value) = 4
    /\ ret.value[1].indicator_type = "late_payment_fees"
    /\ ret.value[1].severity = "high"
    /\ ret.value[2].indicator_type = "payday_loan"
    /\ ret.value[3].indicator_type = "payday_loan"
    /\ ret.value[2].details.date > ret.value[3].details.date
    /\ ret.value[4].indicator_type = "frequent_small_withdrawals"
    /\ ret.value[4].severity = "medium"
    /\ Emitted[2] = ret.value[4]

\* the rows of the analyzed collection that are small ATM withdrawals
SmallWithdrawalRows ==
    LET rows == analyzed.stress.df.rows
    IN  { i \in 1..Len(rows) :
            /\ rows[i].type = "withdrawal" \/ atm_word_hit[rows[i].description]
            /\ Abs(rows[i].amount) < thresholds.small_withdrawal_threshold }

\* the small withdrawals dated in the inclusive window anchored at row i
InWindowOf(i) ==
    LET rows == analyzed.stress.df.rows
    IN  { j \in SmallWithdrawalRows :
            /\ rows[j].date >= rows[i].date
            /\ rows[j].date <= rows[i].date + thresholds.small_withdrawal_days }

MinimumCount ==
    CASE sensitivity = "high" -> 4
      [] sensitivity = "low" -> 8
      [] OTHER -> 6

Withdrawals == OfType(ret.value, "frequent_small_withdrawals")

\* C5: at each sensitivity (minimum count 4, 6, 8), a small withdrawal with
\* exactly the minimum count of small withdrawals in its inclusive window
\* makes analyze() report frequent_small_withdrawals, and with at most the
\* minimum count less one in every window it reports none.
C5_BoundaryInclusive ==
    ret.op = "stress.analyze" =>
        /\ thresholds.small_withdrawal_count = MinimumCount
        /\ (\E i \in SmallWithdrawalRows : Cardinality(InWindowOf(i)) = MinimumCount)
              => Len(Withdrawals) >= 1
        /\ (\A i \in SmallWithdrawalRows : Cardinality(InWindowOf(i)) <= MinimumCount - 1)
              => Len(Withdrawals) = 0

\* C5 witness: low sensitivity, no window above 8, one window of exactly 8
\* whose last withdrawal is dated anchor + 14, and the indicator reported
C5_Witness ==
    /\ ret.op = "stress.analyze"
    /\ sensitivity = "low"
    /\ \A i \in SmallWithdrawalRows : Cardinality(InWindowOf(i)) <= 8
    /\ \E i \in SmallWithdrawalRows :
          /\ Cardinality(InWindowOf(i)) = 8
          /\ \E j \in InWindowOf(i) :
                analyzed.stress.df.rows[j].date = analyzed.stress.df.rows[i].date + 14
    /\ Len(Withdrawals) = 1
    /\ Withdrawals[1].details.num_withdrawals = 8

QualifyingDates ==
    { analyzed.stress.df.rows[i].date : i \in
        { k \in SmallWithdrawalRows : Cardinality(InWindowOf(k)) >= MinimumCount } }

\* C6: analyze() returns at most one frequent_small_withdrawals indicator, and
\* its date_range starts at the earliest date of a small withdrawal whose
\* window qualifies.
C6_ReportOnce ==
    ret.op = "stress.analyze" =>
        /\ Len(Withdrawals) <= 1
        /\ Len(Withdrawals) = 1 =>
              /\ Withdrawals[1].date_range[1] \in QualifyingDates
              /\ \A d \in QualifyingDates : Withdrawals[1].date_range[1] <= d

\* C6 witness: two qualifying windows that do not overlap, the later one
\* listed first in the collection, and the earlier one reported
C6_Witness ==
    /\ ret.op = "stress.analyze"
    /\ Len(Withdrawals) = 1
    /\ \E d1, d2 \in QualifyingDates :
          /\ d2 > d1 + thresholds.small_withdrawal_days
          /\ analyzed.stress.df.rows[1].date = d2
          /\ Withdrawals[1].date_range = <<d1, d1 + thresholds.small_withdrawal_days>>

\* the ATM withdrawals of the analyzed collection with an amount from lo to hi
WithdrawalsBetween(lo, hi) ==
    LET rows == analyzed.stress.df.rows
    IN  { i \in 1..Len(rows) :
            /\ rows[i].type = "withdrawal" \/ atm_word_hit[rows[i].description]
            /\ Abs(rows[i].amount) >= lo /\ Abs(rows[i].amount) <= hi }

WithinOneWindow(S) ==
    \A i, j \in S : analyzed.stress.df.rows[j].date
                        <= analyzed.stress.df.rows[i].date + 14

\* at medium sensitivity the collection's only ATM withdrawals of at most hi
\* dollars are 8 withdrawals of lo..hi dollars, dated within one 14-day window
EightWithdrawals(lo, hi) ==
    /\ ret.op = "stress.analyze"
    /\ sensitivity = "medium"
    /\ Cardinality(WithdrawalsBetween(lo, hi)) = 8
    /\ WithdrawalsBetween(0, hi) = WithdrawalsBetween(lo, hi)
    /\ WithinOneWindow(WithdrawalsBetween(lo, hi))

OneMediumIndicatorOfEight ==
    /\ Len(Withdrawals) = 1
    /\ Withdrawals[1].severity = "medium"
    /\ Withdrawals[1].details.num_withdrawals = 8

HighOnlyFromTen ==
    ret.op = "stress.analyze" =>
        \A i \in 1..Len(Withdrawals) :
            Withdrawals[i].severity = "high"
                <=> Withdrawals[i].details.num_withdrawals >= 10

FeeRows ==
    SelectSeq(analyzed.stress.df.rows,
              LAMBDA r : r.type = "fee" \/ fee_keyword_hit[r.description])

FeeTotal == Abs(SumAmount(FeeRows))

FeeIndicators == OfType(ret.value, "late_payment_fees")

\* C7: analyze() reports exactly one late_payment_fees indicator when some
\* transaction matches the fee rule and none otherwise; its severity is high
\* iff 3 or more match, otherwise medium iff the total is strictly above $50,
\* otherwise low; it carries the count and the total.
C7_FeeSeverity ==
    ret.op = "stress.analyze" =>
        /\ Len(FeeIndicators) = (IF Len(FeeRows) > 0 THEN 1 ELSE 0)
        /\ Len(FeeRows) > 0 =>
              /\ FeeIndicators[1].severity =
                    (IF Len(FeeRows) >= 3 THEN "high"
                     ELSE IF FeeTotal > 50 THEN "medium"
                     ELSE "low")
              /\ FeeIndicators[1].details.num_fees = Len(FeeRows)
              /\ FeeIndicators[1].details.total_fees = FeeTotal

\* C7 witness: two fees totalling exactly $50, reported low
C7_Witness ==
    /\ ret.op = "stress.analyze"
    /\ Len(FeeRows) = 2
    /\ FeeTotal = 50
    /\ Len(FeeIndicators) = 1
    /\ FeeIndicators[1].severity = "low"

\* the deposits of the analyzed collection with category Income
IncomeRows ==
    SelectSeq(analyzed.life.df.rows,
              LAMBDA r : r.type = "deposit" /\ r.category = "Income")

IncomeMerchants == { IncomeRows[i].merchant : i \in 1..Len(IncomeRows) }

FirstDeposit(m) ==
    CHOOSE i \in 1..Len(IncomeRows) :
        /\ IncomeRows[i].merchant = m
        /\ \A j \in 1..(i - 1) : IncomeRows[j].merchant # m

\* the n-th distinct merchant in order of first occurrence, n = 1 the first
NthMerchant(n) ==
    CHOOSE m \in IncomeMerchants :
        Cardinality({o \in IncomeMerchants : FirstDeposit(o) < FirstDeposit(m)}) = n - 1

EarliestDeposit(m) ==
    CHOOSE d \in { IncomeRows[i].date : i \in { j \in 1..Len(IncomeRows) : IncomeRows[j].merchant = m } } :
        \A i \in 1..Len(IncomeRows) : IncomeRows[i].merchant = m => d <= IncomeRows[i].date

JobChanges == SelectSeq(ret.value, LAMBDA e : e.event_type = "job_change")

\* C8: for k distinct merchants among the Income deposits analyze() returns
\* max(k - 1, 0) job_change events: for each n-th distinct merchant after the
\* first (in order of first occurrence) exactly one, naming the one before it
\* as previous_employer, dated at the new merchant's earliest deposit, with
\* confidence exactly 0.85.
C8_JobChange ==
    ret.op = "life.analyze" =>
        LET k == Cardinality(IncomeMerchants)
        IN  /\ Len(JobChanges) = (IF k >= 1 THEN k - 1 ELSE 0)
            /\ \A n \in 2..k :
                  LET mine == SelectSeq(JobChanges,
                                  LAMBDA e : e.details.new_employer = NthMerchant(n))
                  IN  /\ Len(mine) = 1
                      /\ mine[1].details.previous_employer = NthMerchant(n - 1)
                      /\ mine[1].date = EarliestDeposit(NthMerchant(n))
                      /\ mine[1].confidence = Float(85, 0)

\* C8 witness: EmployerA three times, then EmployerB twice, one event
C8_Witness ==
    /\ ret.op = "life.analyze"
    /\ [i \in 1..Len(IncomeRows) |-> IncomeRows[i].merchant]
          = <<"EmployerA", "EmployerA", "EmployerA", "EmployerB", "EmployerB">>
    /\ Len(JobChanges) = 1
    /\ JobChanges[1].details.new_employer = "EmployerB"
    /\ JobChanges[1].details.previous_employer = "EmployerA"
    /\ JobChanges[1].confidence = Float(85, 0)
    /\ JobChanges[1].date < IncomeRows[5].date

\* the travel-matching transactions of the analyzed collection
TravelRows == SelectSeq(analyzed.life.df.rows, is_travel_txn)

TravelDates == { TravelRows[i].date : i \in 1..Len(TravelRows) }

\* the dates more than 30 days after every earlier travel date, that is more
\* than 30 days after the latest one before them
TripStarts ==
    { d \in TravelDates : \A e \in TravelDates : e < d => d - e > 30 }

\* the dates of the trip that starts on s: from s up to the next start
TripDates(s) ==
    { d \in TravelDates :
        /\ s <= d
        /\ \A t \in TripStarts : s < t => d < t }

TravelEvents == SelectSeq(ret.value, LAMBDA e : e.event_type = "travel")

\* C9: the travel-matching transactions, by ascending date, fall into trips:
\* a transaction starts a new trip iff its date is more than 30 days after
\* the latest date of the current trip (exactly 30 days joins); analyze()
\* returns one travel event per trip, in chronological order, and every
\* matching transaction is counted in exactly one trip.
C9_TripClustering ==
    ret.op = "life.analyze" =>
        /\ Len(TravelEvents) = Cardinality(TripStarts)
        /\ \A i \in 1..Len(TravelEvents) :
              LET d == TravelEvents[i].details
              IN  /\ d.start_date \in TripStarts
                  /\ TravelEvents[i].date = d.start_date
                  /\ \A t \in TripDates(d.start_date) : t <= d.end_date
                  /\ d.end_date \in TripDates(d.start_date)
                  /\ d.num_transactions =
                         Len(SelectSeq(TravelRows,
                                 LAMBDA r : r.date \in TripDates(d.start_date)))
        /\ \A i, j \in 1..Len(TravelEvents) :
              i < j => TravelEvents[i].details.start_date
                           < TravelEvents[j].details.start_date

\* C9 witness: travel on day 40, day 0 and day 5, listed in that order, gives
\* the trips {0, 5} and {40}
C9_Witness ==
    /\ ret.op = "life.analyze"
    /\ [i \in 1..Len(TravelRows) |-> TravelRows[i].date] = <<40, 0, 5>>
    /\ Len(TravelEvents) = 2
    /\ TravelEvents[1].details.start_date = 0
    /\ TravelEvents[1].details.end_date = 5
    /\ TravelEvents[1].details.num_transactions = 2
    /\ TravelEvents[2].details.start_date = 40
    /\ TravelEvents[2].details.end_date = 40
    /\ TravelEvents[2].details.num_transactions = 1

\* the transactions of the analyzed collection selected by the loan rule
LoanRows ==
    SelectSeq(analyzed.stress.df.rows,
              LAMBDA r : payday_keyword_hit[r.description] \/ r.category = "Loan")

\* the sum of the amounts of the rows of the analyzed collection at indices S
RECURSIVE AmountOver(_)
AmountOver(S) ==
    IF S = {} THEN 0
    ELSE LET i == CHOOSE x \in S : TRUE
         IN  analyzed.stress.df.rows[i].amount + AmountOver(S \ {i})

\* the running balance at row i: the starting balance of 5000 and every
\* amount up to row i in ascending date order, equal dates in index order
BalanceAt(i) ==
    LET rows == analyzed.stress.df.rows
    IN  5000 + AmountOver({ j \in 1..Len(rows) :
                              \/ rows[j].date < rows[i].date
                              \/ rows[j].date = rows[i].date /\ j <= i })

RECURSIVE BalanceOver(_)
BalanceOver(S) ==
    IF S = {} THEN 0
    ELSE LET i == CHOOSE x \in S : TRUE
         IN  BalanceAt(i) + BalanceOver(S \ {i})

AllDates == { analyzed.stress.df.rows[i].date : i \in 1..Len(analyzed.stress.df.rows) }

FirstDate == CHOOSE d \in AllDates : \A e \in AllDates : d <= e

LastDate == CHOOSE d \in AllDates : \A e \in AllDates : d >= e

SpanDays == LastDate - FirstDate

EarlyHalf ==
    { i \in 1..Len(analyzed.stress.df.rows) :
        analyzed.stress.df.rows[i].date <= FirstDate + (SpanDays \div 2) }

LateHalf == (1..Len(analyzed.stress.df.rows)) \ EarlyHalf

\* the decline (early_mean - late_mean) / early_mean * 100 compared with t,
\* for a positive early mean and a non-empty late half, without division
DeclineMinus(t) ==
    (BalanceOver(EarlyHalf) * Cardinality(LateHalf)
        - BalanceOver(LateHalf) * Cardinality(EarlyHalf)) * 100
    - t * BalanceOver(EarlyHalf) * Cardinality(LateHalf)

DeclineThreshold ==
    CASE sensitivity = "high" -> 15
      [] sensitivity = "low" -> 30
      [] OTHER -> 20

\* more than 30 records, a span of 60 days or more, a positive early mean and
\* a decline above the threshold
DeclineSignal ==
    /\ Len(analyzed.stress.df.rows) > 30
    /\ SpanDays >= 60
    /\ BalanceOver(EarlyHalf) > 0
    /\ DeclineMinus(DeclineThreshold) > 0

Healthy ==
    /\ FeeRows = <<>>
    /\ LoanRows = <<>>
    /\ QualifyingDates = {}
    /\ ~DeclineSignal

\* C11: when no transaction matches the fee rule or the loan rule, no window
\* of small withdrawals reaches the minimum count and the balance decline is
\* not above the threshold (or a guard of it fails), analyze() returns the
\* empty list and get_risk_score() returns 0.
C11_NoFalsePositives ==
    /\ ret.op = "stress.analyze" /\ Healthy
          => ret.value = <<>> /\ stress_indicators = <<>>
    /\ ret.op = "get_risk_score" /\ analyzed.stress.called /\ Healthy
          => ret.value = 0

\* C11 witness: 31 records over 60 days whose balance declines by exactly the
\* threshold, analyzed to the empty list and scored 0
C11_Witness ==
    /\ ret.op = "get_risk_score"
    /\ analyzed.stress.called
    /\ Healthy
    /\ Len(analyzed.stress.df.rows) > 30
    /\ SpanDays = 60
    /\ BalanceOver(EarlyHalf) > 0
    /\ DeclineMinus(DeclineThreshold) = 0
    /\ stress_indicators = <<>>
    /\ ret.value = 0

\* the two collections hold the same records, each as often, in some order
SameRecords(a, b) ==
    /\ a.columns = b.columns
    /\ Len(a.rows) = Len(b.rows)
    /\ \A r \in { a.rows[i] : i \in 1..Len(a.rows) } :
          Cardinality({ i \in 1..Len(a.rows) : a.rows[i] = r })
              = Cardinality({ i \in 1..Len(b.rows) : b.rows[i] = r })

DistinctDates(a) ==
    \A i, j \in 1..Len(a.rows) : a.rows[i].date = a.rows[j].date => i = j

\* an analyze() of kind op has returned on a reordering of the records of an
\* earlier, kept analyze() of the same kind, all of distinct dates
Reanalyzed(op) ==
    /\ ret.op = op
    /\ memo.kept
    /\ memo.op = op
    /\ SameRecords(memo.df, LastInput(op))
    /\ DistinctDates(memo.df)

\* C12: LifeEventDetector.analyze() returns the same events for every order
\* of the same records of pairwise distinct dates, and every job_change goes
\* from the employer whose deposits began earlier to the one whose deposits
\* began later.  The code takes the employers in input order, so the
\* statement fails when the later employer's deposit is listed first.
C12_LifeOrderIndependent ==
    /\ Reanalyzed("life.analyze") => ret.value = memo.value
    /\ ret.op = "life.analyze" /\ DistinctDates(analyzed.life.df) =>
          \A i \in 1..Len(JobChanges) :
              EarliestDeposit(JobChanges[i].details.previous_employer)
                  < EarliestDeposit(JobChanges[i].details.new_employer)

\* C13: FinancialStressDetector.analyze() returns a value-equal list, the
\* same indicators in the same order with the same fee_list, for every order
\* of the same records of pairwise distinct dates.  The code takes the loan
\* rows and the fee rows in input order, so the statement fails when two
\* payday loans are listed in another order.
C13_StressOrderIndependent ==
    Reanalyzed("stress.analyze") => ret.value = memo.value

\* the required fields the collection lacks
MissingFields(df) == RequiredColumns \ df.columns

\* C14: when the input lacks a required field, analyze() of either detector
\* ends in an error that names a missing field and returns no list, whatever
\* the transactions are.  The code raises only when it reads the column, so
\* the statement fails for a collection without 'merchant' and without a
\* loan row (stress detector) and for one without 'amount' and without a
\* second employer, a moving row or a travel row (life detector).
C14_MissingFieldFails ==
    ret.op \in {"stress.analyze", "life.analyze"}
        /\ MissingFields(LastInput(ret.op)) # {}
    => /\ ret.raised.type # "none"
       /\ ret.raised.key \in MissingFields(LastInput(ret.op))
       /\ ret.value = <<>>

\* no transaction, and every required field declared
IsEmpty(df) == df.rows = <<>> /\ RequiredColumns \subseteq df.columns

\* C15: for an empty collection with the required fields declared every
\* sub-detector of both detectors returns the empty list, analyze() returns
\* the empty list without error, the cache becomes empty and
\* get_risk_score() returns 0.
C15_EmptyInput ==
    /\ ret.op = "stress.analyze" /\ IsEmpty(analyzed.stress.df) =>
          LET df == working_copy(analyzed.stress.df)
          IN  /\ detect_late_payment_fees(StressSelf, df) = <<>>
              /\ detect_frequent_small_withdrawals(StressSelf, df) = <<>>
              /\ detect_payday_loans(StressSelf, df) = <<>>
              /\ detect_declining_balance(StressSelf, df) = <<>>
              /\ ret.raised = NoError
              /\ ret.value = <<>>
              /\ stress_indicators = <<>>
    /\ ret.op = "life.analyze" /\ IsEmpty(analyzed.life.df) =>
          LET df == working_copy(analyzed.life.df)
          IN  /\ detect_job_change(df) = <<>>
              /\ detect_relocation(df) = <<>>
              /\ detect_travel(df) = <<>>
              /\ ret.raised = NoError
              /\ ret.value = <<>>
              /\ events = <<>>
    /\ ret.op = "get_risk_score" /\ analyzed.stress.called
          /\ IsEmpty(analyzed.stress.df) => ret.value = 0

\* C15 witness: analyze() of an empty collection returning the empty list
\* and emptying a cache that held indicators
C15_Witness ==
    /\ ret.op = "stress.analyze"
    /\ IsEmpty(analyzed.stress.df)
    /\ ret.raised = NoError
    /\ ret.before # <<>>
    /\ ret.value = <<>>
    /\ stress_indicators = <<>>

\* C16: analyze() of either detector leaves the caller's collection as it
\* was passed: the same columns, the same rows in the same order with the
\* same values, dates unparsed where they were strings; in every step that
\* is an analyze() call, whatever was called before and whether the call
\* returns or raises.
C16_InputUnchanged ==
    [][ret'.op \in {"stress.analyze", "life.analyze"}
        => transactions_df' = transactions_df]_vars

\* a stress analyze() that failed on the missing merchant after parsing the
\* dates of a string-dated frame, a life analyze() having run before it
C16_Witness ==
    /\ ret.op = "stress.analyze"
    /\ ret.raised = KeyError("merchant")
    /\ analyzed.stress.df = transactions_df
    /\ transactions_df.date_dtype = "object"
    /\ analyzed.life.called

\* what analyze() returns for the collection X when nothing else runs
AloneResult(op, X) ==
    IF op = "stress.analyze" THEN FSD_analyze(FSD_init(sensitivity), X).value
    ELSE LED_analyze(LED_init(sensitivity), X).value

\* the complete results the cache of a detector may hold: the one it held
\* before the concurrent calls and the one of each call made on it
CompleteResults(op) ==
    LET before == IF op = "stress.analyze" THEN analyzed.stress ELSE analyzed.life
    IN  {IF before.called THEN AloneResult(op, before.df) ELSE <<>>}
        \cup {AloneResult(op, threads[c].transactions) :
                 c \in {d \in Callers : threads[d].op = op}}

ScoreOf(list) == get_risk_score([FSD_init(sensitivity) EXCEPT !.stress_indicators = list])

\* C17: with two analyze() calls interleaved on one instance, each call
\* returns what it returns alone for its own collection; the cache of each
\* detector is at every moment the value it had before, or the complete
\* result of one of the calls, and once the calls on it have assigned, the
\* result of one of them; a risk score is the score of one of these lists.
C17_LastWriterWins ==
    /\ \A c \in Callers :
          threads[c].pc \in {"returned", "scoring", "scored"}
          => threads[c].result = AloneResult(threads[c].op, threads[c].transactions)
    /\ stress_indicators \in CompleteResults("stress.analyze")
    /\ events \in CompleteResults("life.analyze")
    /\ \A op \in AnalyzeOps :
          LET on == {c \in Callers : threads[c].op = op}
              cache == IF op = "stress.analyze" THEN stress_indicators ELSE events
          IN  (on # {} /\ \A c \in on : threads[c].pc \notin {"detecting", "sorted"})
              => \E c \in on : cache = AloneResult(op, threads[c].transactions)
    /\ \A c \in Callers :
          threads[c].pc = "scored"
          => \E list \in CompleteResults("stress.analyze") : threads[c].score = ScoreOf(list)

\* X's caller analyzed its collection while Y's call was in progress, and its
\* get_risk_score() returned the score of Y's collection, not of its own
C17_Witness ==
    /\ threads["X"].pc = "scored"
    /\ threads["X"].overlapped
    /\ threads["Y"].op = "stress.analyze"
    /\ threads["X"].score = ScoreOf(AloneResult("stress.analyze", threads["Y"].transactions))
    /\ threads["X"].score # ScoreOf(threads["X"].result)

MediumThresholds ==
    [small_withdrawal_threshold |-> 60, small_withdrawal_count |-> 6,
     small_withdrawal_days |-> 14, declining_balance_months |-> 2,
     balance_decline_pct |-> 20, high_fee_threshold |-> 50]

\* C18: the thresholds of a stress detector are the medium set (ceiling 60,
\* count 6, window 14 days, decline 20, high fee 50) for sensitivity medium
\* and for every value other than high and low; for high they differ from it
\* only in count 4 and decline 15, for low only in count 8 and decline 30;
\* and they stay so through every analyze(), get_summary() and
\* get_risk_score().
C18_Thresholds ==
    /\ DOMAIN thresholds = DOMAIN MediumThresholds
    /\ \A k \in DOMAIN thresholds :
          thresholds[k] =
              IF k = "small_withdrawal_count"
              THEN (IF sensitivity = "high" THEN 4 ELSE IF sensitivity = "low" THEN 8 ELSE 6)
              ELSE IF k = "balance_decline_pct"
              THEN (IF sensitivity = "high" THEN 15 ELSE IF sensitivity = "low" THEN 30 ELSE 20)
              ELSE MediumThresholds[k]

\* a detector constructed with an unknown sensitivity has analyzed a
\* collection with findings and answered get_risk_score() above zero
C18_Witness ==
    /\ sensitivity = "extreme"
    /\ analyzed.stress.called
    /\ ret.op = "get_risk_score"
    /\ ret.value > 0
    /\ thresholds.small_withdrawal_count = 6
    /\ thresholds.balance_decline_pct = 20

DecliningFound == OfType(ret.value, "declining_balance")

\* C19: analyze() returns no declining_balance indicator for a collection of
\* 30 or fewer records, or spanning fewer than 60 days, or whose early mean
\* balance is zero or negative, or whose decline percentage is not strictly
\* above the threshold of the sensitivity; and exactly one when there are
\* more than 30 records, 60 days or more, a positive early mean and a
\* decline above the threshold.
C19_DecliningGuards ==
    ret.op = "stress.analyze" =>
        /\ Len(analyzed.stress.df.rows) <= 30 => DecliningFound = <<>>
        /\ SpanDays < 60 => DecliningFound = <<>>
        /\ BalanceOver(EarlyHalf) <= 0 => DecliningFound = <<>>
        /\ BalanceOver(EarlyHalf) > 0 /\ DeclineMinus(DeclineThreshold) <= 0
              => DecliningFound = <<>>
        /\ DeclineSignal => Len(DecliningFound) = 1

\* 31 records spanning exactly 60 days, a positive early mean and a decline
\* above the threshold: exactly one declining_balance indicator
C19_Witness ==
    /\ ret.op = "stress.analyze"
    /\ Len(analyzed.stress.df.rows) = 31
    /\ SpanDays = 60
    /\ BalanceOver(EarlyHalf) > 0
    /\ DeclineMinus(DeclineThreshold) > 0
    /\ Len(DecliningFound) = 1

\* the severity the rule gives the decline of the analyzed collection: high
\* above 40 percent, else low below 25 percent, else medium
RatedDecline ==
    IF DeclineMinus(40) > 0 THEN "high"
    ELSE IF DeclineMinus(25) < 0 THEN "low"
    ELSE "medium"

\* C20: a declining_balance indicator is rated high if the decline is above
\* 40 percent, otherwise low if it is below 25 percent, otherwise medium: a
\* decline of exactly 25 or exactly 40 percent is medium, a decline between
\* 20 and 25 percent at medium sensitivity is low, and at low sensitivity no
\* indicator is rated low.
C20_DeclineSeverity ==
    ret.op = "stress.analyze" =>
        \A i \in 1..Len(DecliningFound) :
            /\ DecliningFound[i].severity = RatedDecline
            /\ DeclineMinus(25) = 0 \/ DeclineMinus(40) = 0
                  => DecliningFound[i].severity = "medium"
            /\ sensitivity = "medium" /\ DeclineMinus(20) > 0 /\ DeclineMinus(25) < 0
                  => DecliningFound[i].severity = "low"
            /\ sensitivity = "low" => DecliningFound[i].severity # "low"

\* a decline of exactly 40 percent, reported and rated medium
C20_Witness ==
    /\ ret.op = "stress.analyze"
    /\ Len(DecliningFound) = 1
    /\ DeclineMinus(40) = 0
    /\ DecliningFound[1].severity = "medium"

PaydayFound == OfType(ret.value, "payday_loan")

\* the indices of the rows of the analyzed collection that the loan rule
\* matches: a payday keyword in the description, or category Loan
LoanIndices == { i \in 1..Len(analyzed.stress.df.rows) :
                   \/ payday_keyword_hit[analyzed.stress.df.rows[i].description]
                   \/ analyzed.stress.df.rows[i].category = "Loan" }

\* C21: analyze() returns exactly one payday_loan indicator per transaction
\* that matches a payday keyword or has category Loan, a transaction matching
\* both counted once; each is of severity high with date_range (date, date)
\* of its transaction; and n such transactions alone score min(100, 30 * n).
C21_PaydayPerTransaction ==
    /\ ret.op = "stress.analyze" =>
          /\ Len(PaydayFound) = Cardinality(LoanIndices)
          /\ \A i \in 1..Len(PaydayFound) :
                /\ PaydayFound[i].severity = "high"
                /\ PaydayFound[i].date_range[1] = PaydayFound[i].date_range[2]
          /\ \A d \in AllDates :
                Cardinality({ i \in 1..Len(PaydayFound) : PaydayFound[i].date_range = <<d, d>> })
                = Cardinality({ i \in LoanIndices : analyzed.stress.df.rows[i].date = d })
    /\ (/\ ret.op = "get_risk_score"
        /\ analyzed.stress.called
        /\ FeeRows = <<>> /\ QualifyingDates = {} /\ Len(analyzed.stress.df.rows) <= 30)
          => ret.value = (IF 30 * Cardinality(LoanIndices) > 100 THEN 100
                          ELSE 30 * Cardinality(LoanIndices))

\* four loan transactions, one by keyword only, one by category only and one
\* by both among them, scored 100
C21_Witness ==
    /\ ret.op = "get_risk_score"
    /\ analyzed.stress.called
    /\ Cardinality(LoanIndices) = 4
    /\ \E i, j, k \in LoanIndices :
          LET rows == analyzed.stress.df.rows
          IN  /\ payday_keyword_hit[rows[i].description] /\ rows[i].category # "Loan"
              /\ ~payday_keyword_hit[rows[j].description] /\ rows[j].category = "Loan"
              /\ payday_keyword_hit[rows[k].description] /\ rows[k].category = "Loan"
    /\ ret.value = 100

RelocationsFound == SelectSeq(ret.value, LAMBDA e : e.event_type = "relocation")

LifeRows == analyzed.life.df.rows

MovingIndices == { i \in 1..Len(LifeRows) : moving_keyword_hit[LifeRows[i].description] }

\* the rows dated from 7 days before to 30 days after day d, both included
NearMove(d) == { i \in 1..Len(LifeRows) : LifeRows[i].date >= d - 7 /\ LifeRows[i].date <= d + 30 }

\* min(0.95, 0.6 + 0.2*[a] + 0.15*[b]) in hundredths, for a moving charge of day d
RelocationPercent(d) ==
    LET a == \E i \in NearMove(d) :
                 deposit_word_hit[LifeRows[i].description] /\ LifeRows[i].amount < -1000
        b == \E i \in NearMove(d) : utility_keyword_hit[LifeRows[i].description]
        sum == 60 + (IF a THEN 20 ELSE 0) + (IF b THEN 15 ELSE 0)
    IN  IF sum > 95 THEN 95 ELSE sum

\* C22: analyze() returns exactly one relocation event per moving-keyword
\* transaction, also when their windows overlap, and the confidence of the
\* event of a moving charge of day d is min(0.95, 0.6 + 0.2*[a] + 0.15*[b]),
\* [a] a row of the window [d - 7, d + 30] whose description contains
\* "deposit" and whose amount is below -1000, [b] a row of the window with a
\* utility-setup keyword.
C22_Relocation ==
    ret.op = "life.analyze" =>
        /\ Len(RelocationsFound) = Cardinality(MovingIndices)
        /\ \A i \in MovingIndices :
              \E k \in 1..Len(RelocationsFound) :
                  /\ RelocationsFound[k].date = LifeRows[i].date
                  /\ RelocationsFound[k].confidence = Float(RelocationPercent(LifeRows[i].date), 0)

\* two moving charges with overlapping windows and two events: the earlier
\* one at 0.95, its deposit dated 30 days after it and its utility setup 7
\* days before it; the later one at 0.8, the same deposit in its window and
\* the setup outside it
C22_Witness ==
    /\ ret.op = "life.analyze"
    /\ Len(RelocationsFound) = 2
    /\ RelocationsFound[1].date = 20 /\ RelocationsFound[1].confidence = Float(95, 0)
    /\ RelocationsFound[2].date = 40 /\ RelocationsFound[2].confidence = Float(80, 0)
    /\ \E i \in 1..Len(LifeRows) :
          /\ deposit_word_hit[LifeRows[i].description] /\ LifeRows[i].amount < -1000
          /\ LifeRows[i].date = 50
    /\ \E i \in 1..Len(LifeRows) :
          utility_keyword_hit[LifeRows[i].description] /\ LifeRows[i].date = 13

TravelFound == SelectSeq(ret.value, LAMBDA e : e.event_type = "travel")

TravelIndices ==
    { i \in 1..Len(LifeRows) :
        travel_keyword_hit[LifeRows[i].description] \/ LifeRows[i].category = "Travel" }

\* the sum of the absolute values of the amounts of the rows at indices S
RECURSIVE AbsAmountOver(_)
AbsAmountOver(S) ==
    IF S = {} THEN 0
    ELSE LET i == CHOOSE x \in S : TRUE
         IN  Abs(LifeRows[i].amount) + AbsAmountOver(S \ {i})

\* the confidences an event has with the spending bonus: 0.7 + 0.1, and
\* 0.7 + 0.2 + 0.1 capped at 0.95
WithSpendBonus == {Float(80, -1), Float(95, 0)}

\* C23: for a collection whose travel transactions form one trip, the travel
\* event's total_spent is the sum of the absolute values of the amounts of
\* the trip's transactions, and its confidence includes the bonus of 0.1
\* exactly when that sum is above 500.
C23_TotalSpent ==
    (ret.op = "life.analyze" /\ Len(TravelFound) = 1) =>
        /\ TravelFound[1].details.total_spent = AbsAmountOver(TravelIndices)
        /\ TravelFound[1].confidence \in WithSpendBonus <=> AbsAmountOver(TravelIndices) > 500

\* the text s contains the word w character for character
ContainsLiterally(s, w) ==
    \E i \in 1..Len(s) :
        /\ i + Len(w) - 1 <= Len(s)
        /\ \A k \in 1..Len(w) : s[i + k - 1] = w[k]

\* the lower-cased description contains one of the keywords as a substring
LiteralHit(description, keywords) ==
    \E j \in 1..Len(keywords) : ContainsLiterally(lower(description), keywords[j])

\* C24: keyword rules select by literal, case-insensitive substring: the
\* life detector reports as many relocations as there are rows whose
\* lower-cased description contains a moving keyword, and reports travel
\* exactly when some row contains a travel keyword or has category Travel;
\* a row "bookingXcom" of another category alone is not travel.
C24_LiteralKeywords ==
    ret.op = "life.analyze" =>
        /\ Len(RelocationsFound)
              = Cardinality({ i \in 1..Len(LifeRows) :
                                LiteralHit(LifeRows[i].description, moving_keywords) })
        /\ TravelFound # <<>>
              <=> \E i \in 1..Len(LifeRows) :
                      \/ LiteralHit(LifeRows[i].description, travel_keywords)
                      \/ LifeRows[i].category = "Travel"

\* what the cache of a detector holds if failed calls leave it alone: the
\* result for the last collection on which analyze() returned, else nothing
LastGoodResult(op) ==
    LET history == IF op = "stress.analyze" THEN analyzed.stress ELSE analyzed.life
    IN  IF history.returned THEN AloneResult(op, history.good) ELSE <<>>

\* C25: an analyze() that ends in an error (a date text that is no date, a
\* missing column) returns nothing and leaves the cache as it was before the
\* call; the caches always hold the result of the last analyze() that
\* returned, or nothing, and get_risk_score() and get_summary() answer for
\* that result: 0 and the no-result text if no call has returned.
C25_CacheKeptOnError ==
    /\ (ret.op \in AnalyzeOps /\ ret.raised # NoError)
          => /\ ret.value = <<>>
             /\ ret.before = (IF ret.op = "stress.analyze" THEN stress_indicators ELSE events)
    /\ stress_indicators = LastGoodResult("stress.analyze")
    /\ events = LastGoodResult("life.analyze")
    /\ ret.op = "get_risk_score" => ret.value = ScoreOf(LastGoodResult("stress.analyze"))
    /\ ret.op = "stress.get_summary"
          => ret.value = FSD_get_summary([FSD_init(sensitivity) EXCEPT
                             !.stress_indicators = LastGoodResult("stress.analyze")])
    /\ ret.op = "life.get_summary"
          => ret.value = LED_get_summary([LED_init(sensitivity) EXCEPT
                             !.events = LastGoodResult("life.analyze")])
    /\ (ret.op = "get_risk_score" /\ ~analyzed.stress.returned) => ret.value = 0
    /\ (ret.op = "stress.get_summary" /\ ~analyzed.stress.returned)
          => ret.value.text = "No significant financial stress indicators detected. Keep up the good work!"
    /\ (ret.op = "life.get_summary" /\ ~analyzed.life.returned)
          => ret.value.text = "No life events detected."

\* get_risk_score() answers above zero for an earlier collection, the last
\* analyze() having failed on a date text that is no date
C25_Witness ==
    /\ ret.op = "get_risk_score"
    /\ ret.value > 0
    /\ analyzed.stress.returned
    /\ unparsable_dates(analyzed.stress.df)
    /\ analyzed.stress.good # analyzed.stress.df

\* the decimal d/100 as the double its literal denotes
Hundredths(d) == Float(d, 0)

\* C26: every event analyze() returns has a confidence between 0.6 and 0.95;
\* a job_change has exactly 0.85, a relocation one of 0.6, 0.75, 0.8, 0.95
\* and a travel event one of 0.7, 0.8, 0.9, 0.95.
C26_ConfidenceValues ==
    ret.op = "life.analyze" =>
        \A i \in 1..Len(ret.value) :
            LET e == ret.value[i]
            IN  /\ float_le(Hundredths(60), e.confidence)
                /\ float_le(e.confidence, Hundredths(95))
                /\ e.event_type = "job_change" => e.confidence = Hundredths(85)
                /\ e.event_type = "relocation"
                      => e.confidence \in {Hundredths(60), Hundredths(75), Hundredths(80), Hundredths(95)}
                /\ e.event_type = "travel"
                      => e.confidence \in {Hundredths(70), Hundredths(80), Hundredths(90), Hundredths(95)}

\* the running balances of the analyzed collection and the two halves the
\* trend analyzer takes its means over
TrendRows == calculate_running_balance(working_copy(analyzed.stress.df))

TrendHalves ==
    balance_halves(TrendRows,
                   mid_point(MinDate(TrendRows), MaxDate(TrendRows) - MinDate(TrendRows)))

\* C27: when the collection has more than 30 records and spans 60 days or
\* more, both halves of the balance trend are non-empty, the earliest record
\* is in the early half and the latest in the late half, and every record is
\* in exactly one half.
C27_HalvesNonEmpty ==
    (/\ ret.op = "stress.analyze"
     /\ Len(analyzed.stress.df.rows) > 30
     /\ SpanDays >= 60)
    => /\ TrendHalves.early # <<>>
       /\ TrendHalves.late # <<>>
       /\ \E i \in 1..Len(TrendHalves.early) : TrendHalves.early[i].date = FirstDate
       /\ \E i \in 1..Len(TrendHalves.late) : TrendHalves.late[i].date = LastDate
       /\ Len(TrendHalves.early) + Len(TrendHalves.late) = Len(analyzed.stress.df.rows)
       /\ \A i \in 1..Len(TrendHalves.early), j \in 1..Len(TrendHalves.late) :
             TrendHalves.early[i].date < TrendHalves.late[j].date

\* 31 records over exactly 60 days, 29 of them dated at the midpoint: they
\* are in the early half and the late half holds the one last record
C27_Witness ==
    /\ ret.op = "stress.analyze"
    /\ Len(analyzed.stress.df.rows) = 31
    /\ SpanDays = 60
    /\ Len(TrendHalves.late) = 1
    /\ Cardinality({ i \in 1..Len(TrendHalves.early) :
                       TrendHalves.early[i].date = FirstDate + 30 }) = 29
====
